---- MODULE Spec2Model ----
(***************************************************************************)
(* Task pipeline of the voice-clone service: the Redis priority queue      *)
(* (services/queue_manager.py), the submission and cancel endpoints        *)
(* (app.py), the Voice Processor worker (process_worker.py) and the        *)
(* Uploader worker with its retrying callback (upload_worker.py).          *)
(***************************************************************************)
EXTENDS Integers, Sequences, FiniteSets, TLC

(* ------------------------------ bounds -------------------------------- *)
\* number of task ids uuid4 can hand out in one run of the model
MaxTasks == 2
\* time.time() at the start of the run, and the last value it takes
StartTime == 100
MaxTicks == 1
\* the jitter (time.time() * 0.01) % 1 takes the values j / JitterSteps for
\* j in 0..JitterSteps-1; every wait is counted in units of 1 / JitterSteps s
JitterSteps == 2
\* a scripted endpoint fails this many POSTs of a call before it settles
ScriptFails == 3

(* ------------------------- program constants -------------------------- *)
MAX_RETRIES == 10
INITIAL_DELAY == 1
MaxSleep == 60
MinPriority == 1
MaxPriority == 5
ScoreBase == 6
DefaultPriority == 3

ProcessWorkers == {"pw1", "pw2"}
UploadWorkers == {"uw1"}
\* a second Uploader process, started when delivery is scaled out
ExtraUploadWorkers == {"uw2"}
AllUploadWorkers == UploadWorkers \cup ExtraUploadWorkers
Cancellers == {"c1", "c2"}
PipelineCanceller == "c1"

TaskIds == 1..MaxTasks
\* priorities a client may put in the request body: the ends of the range
\* and one value on each side of it
PriorityInputs ==
    {MinPriority - 1, MinPriority, MaxPriority, MaxPriority + 1}
Statuses == {"success", "failed"}
Jitters == 0..(JitterSteps - 1)
NoJitter == 0

\* responses of the hook_url endpoint: an HTTP status, or no response at all
\* (requests.exceptions.RequestException: connection error, timeout)
HttpCodes == {200, 404, 408, 429, 500}
Responses == {[kind |-> "http", code |-> c] : c \in HttpCodes}
                \cup {[kind |-> "neterr", code |-> 0]}

(* ------------------------- hook_url endpoints ------------------------- *)
\* A hook_url is identified with the endpoint behind it: one that may answer
\* anything ("any"), or one that answers `first` to the first `fails` POSTs
\* of a callback call and `then` to the later ones ("script"). NoHook is the
\* falsy hook_url (None or "").
OkResponse == [kind |-> "http", code |-> 200]
NoHook == [mode |-> "none", first |-> OkResponse, fails |-> 0,
           then |-> OkResponse]
AnyHook == [mode |-> "any", first |-> OkResponse, fails |-> 0,
            then |-> OkResponse]
AlwaysHook(t) == [mode |-> "script", first |-> t, fails |-> 0, then |-> t]
FailingHook(f, t) ==
    [mode |-> "script", first |-> f, fails |-> ScriptFails, then |-> t]

ScriptCodes == HttpCodes \cup {400, 503}
ScriptResponses == {[kind |-> "http", code |-> c] : c \in ScriptCodes}
                      \cup {[kind |-> "neterr", code |-> 0]}
\* what a scripted endpoint answers while it fails
FailingResponses ==
    {r \in ScriptResponses : r.kind = "neterr" \/ r.code \in {408, 429, 500, 503}}
ScriptedHooks ==
    {AlwaysHook(t) : t \in ScriptResponses}
      \cup {FailingHook(f, t) : f \in FailingResponses, t \in ScriptResponses}

\* the responses the endpoint may give to a POST when it got n POSTs of the
\* same callback call before
EndpointAnswers(h, n) ==
    IF h.mode = "any" THEN Responses
    ELSE IF h.mode = "script" THEN {IF n < h.fails THEN h.first ELSE h.then}
    ELSE {}

(* ----------------------------- config['r2'] -------------------------- *)
\* strings the model takes apart are sequences of their pieces
EmptyStr == <<>>
PublicUrl == <<"https://", "cdn.example">>
\* r2_config.get('public_url', ''): not set, set, set with a trailing slash
ConfigPublicUrls == {EmptyStr, PublicUrl, PublicUrl \o <<"/">>}

RECURSIVE RStripSlash(_)
\* str.rstrip('/')
RStripSlash(s) ==
    IF s # <<>> /\ s[Len(s)] = "/" THEN RStripSlash(SubSeq(s, 1, Len(s) - 1))
    ELSE s

(* ------------------------ POST /generate bodies ----------------------- *)
\* a key of a JSON object: present with a value, or absent
Some(v) == [present |-> TRUE, value |-> v]
AbsentStr == [present |-> FALSE, value |-> ""]
AbsentInt == [present |-> FALSE, value |-> 0]
AbsentHook == [present |-> FALSE, value |-> NoHook]

\* dict.get(key, default)
Get(field, default) == IF field.present THEN field.value ELSE default

\* Python's None where a string is expected
PyNone == "<None>"

\* params as a JSON object with or without "language", or as any other JSON
\* value (null, a string, a number, a list)
EmptyDict == [dict |-> TRUE, language |-> AbsentStr]
NotADict == [dict |-> FALSE, language |-> AbsentStr]
AbsentParams == [present |-> FALSE, value |-> NotADict]
DefaultLanguage == "en"
\* config['voice_clone']['supported_languages']
SupportedLanguages == {"en", "zh"}

ParamsInputs ==
    {AbsentParams, Some(NotADict)}
      \cup {Some([dict |-> TRUE, language |-> l]) :
              l \in {AbsentStr, Some("en"), Some("xx")}}

\* the body of a well-formed request for h at priority p
Request(h, p) ==
    [text |-> Some("hello"), spk_audio_prompt |-> Some("ref.wav"),
     priority |-> p, hook_url |-> Some(h), params |-> AbsentParams]

\* the well-formed request with every optional key left out
PlainRequest == Request(AnyHook, AbsentInt)

\* the bodies that depart from it in one key
OneKeyRequests ==
    {[PlainRequest EXCEPT !.text = v] : v \in {AbsentStr, Some("")}}
      \cup {[PlainRequest EXCEPT !.spk_audio_prompt = AbsentStr],
            [PlainRequest EXCEPT !.hook_url = AbsentHook]}
      \cup {[PlainRequest EXCEPT !.priority = Some(p)] : p \in PriorityInputs}
      \cup {[PlainRequest EXCEPT !.params = v] : v \in ParamsInputs}

\* the bodies a client may send: those, and those with params that is not
\* an object as well
Requests ==
    OneKeyRequests
      \cup {[data EXCEPT !.params = Some(NotADict)] : data \in OneKeyRequests}

VARIABLES
    clock,         \* time.time()
    nextId,        \* the next id uuid.uuid4() hands out
    processQueue,  \* the ZSET: a set of [task, score]
    uploadQueue,   \* the LIST: head is the LPUSH end, tail the BRPOP end
    inserted,      \* ids of the results in the LIST, first pushed first
    pw,            \* Voice Processor workers: pc, task held, its hook_url
    uw,            \* Uploader workers: pc, upload task held, callback loop
    cn,            \* cancel requests in delete_process_task
    files,         \* output paths that exist on the local disk
    cleanupCfg,    \* config['task']['cleanup_after_upload']
    publicUrl,     \* config['r2']['public_url'], '' when it is not set
    bucket,        \* object keys put into the R2 bucket
    shouldStop,    \* worker process -> its global should_stop
    reply,         \* the last response of the API that is looked at
    bodies,        \* id -> the JSON bodies of the callbacks POSTed
    returned,      \* id -> how often get_process_task returned the task
    cancelTrue,    \* id -> how often delete_process_task returned True
    posts,         \* id -> statuses of the callbacks POSTed for the task
    delivered,     \* id -> statuses of the callbacks answered without error
    cbEnd          \* id -> how the last callback call for the task ended

vars == <<clock, nextId, processQueue, uploadQueue, inserted, pw, uw, cn,
          files, cleanupCfg, publicUrl, bucket, shouldStop, reply,
          bodies, returned, cancelTrue, posts, delivered, cbEnd>>

NoTask == [task_id |-> 0, priority |-> 0, created_at |-> 0]
NoUpload == [task_id |-> 0, hook_url |-> NoHook, output_paths |-> <<>>,
             cleanup |-> FALSE]
NoReply == [code |-> 0, status |-> "", task_uuid |-> 0, error |-> ""]

IdlePw == [pc |-> "idle", task |-> 0, hook |-> NoHook]
IdleUw == [pc |-> "idle", task |-> NoUpload, status |-> "none", attempt |-> 0,
           nposts |-> 0, wait |-> 0]
IdleCn == [pc |-> "idle", id |-> 0, found |-> {}]

(* --------------------------- queue_manager ---------------------------- *)
\* a score that grows with the priority value
CalculateScoreRising(priority, timestamp) == priority * timestamp

\* _calculate_score with timestamp = time.time()
CalculateScore(priority, timestamp) == (ScoreBase - priority) * timestamp

\* ZADD key {member: score}: a member already present only gets the new score
ZAdd(q, member, score) ==
    {e \in q : e.task # member} \cup {[task |-> member, score |-> score]}

\* a pop that may return any member
AnyMembers(q) == q

\* the members ZPOPMAX may return: those of maximum score (Redis breaks a tie
\* by the byte order of the serialized members, which start with the random
\* task_id)
MaxMembers(q) == {e \in q : \A f \in q : f.score <= e.score}

\* a ZREM that misses (wrong key or member)
ZRemNothing(q, member) == q

\* ZREM key member: the queue afterwards
ZRem(q, member) == {e \in q : e.task # member}

\* ZREM key member: the number of members removed
ZRemCount(q, member) == Cardinality({e \in q : e.task = member})

\* LPUSH
LPush(q, item) == <<item>> \o q

\* LPOP for BRPOP: the element at the head
LPopItem(q) == q[1]

\* BRPOP: the element returned
RPopItem(q) == q[Len(q)]

\* a read of the tail that leaves it in the list (LINDEX -1 for BRPOP)
RPeekRest(q) == q

\* BRPOP: the list afterwards
RPopRest(q) == SubSeq(q, 1, Len(q) - 1)

Bump(f, id) == [f EXCEPT ![id] = IF @ < 2 THEN @ + 1 ELSE @]

\* the processes just started, whatever config['r2'] says
Started ==
    /\ clock = StartTime
    /\ nextId = 1
    /\ processQueue = {}
    /\ uploadQueue = <<>>
    /\ inserted = <<>>
    /\ pw = [w \in ProcessWorkers |-> IdlePw]
    /\ uw = [u \in AllUploadWorkers |-> IdleUw]
    /\ cn = [c \in Cancellers |-> IdleCn]
    /\ files = {}
    /\ bucket = {}
    /\ cleanupCfg \in BOOLEAN
    /\ shouldStop = [p \in ProcessWorkers \cup AllUploadWorkers |-> FALSE]
    /\ reply = NoReply
    /\ bodies = [i \in TaskIds |-> {}]
    /\ returned = [i \in TaskIds |-> 0]
    /\ cancelTrue = [i \in TaskIds |-> 0]
    /\ posts = [i \in TaskIds |-> {}]
    /\ delivered = [i \in TaskIds |-> {}]
    /\ cbEnd = [i \in TaskIds |-> "none"]

\* the processes just started with a public_url configured
Init == Started /\ publicUrl = PublicUrl

\* the wall clock advances
Tick ==
    /\ clock < StartTime + MaxTicks
    /\ clock' = clock + 1
    /\ UNCHANGED <<nextId, processQueue, uploadQueue, inserted, pw, uw, cn,
                   files, cleanupCfg, publicUrl, bucket, shouldStop, reply,
                   bodies, returned, cancelTrue, posts, delivered,
                   cbEnd>>

(* -------------------------------- app --------------------------------- *)
\* clone_single lines 130-135: the fields read from the body
Text(data) == Get(data.text, PyNone)
SpkAudioPrompt(data) == Get(data.spk_audio_prompt, PyNone)
Priority(data) == Get(data.priority, DefaultPriority)
HookUrl(data) == Get(data.hook_url, NoHook)
Params(data) == Get(data.params, EmptyDict)
Language(data) == Get(Params(data).language, DefaultLanguage)

\* line 135: params.get raises AttributeError unless params is a dict
ParamsGetRaises(data) == ~Params(data).dict

\* `not v` for a string or None
Falsy(v) == v = PyNone \/ v = ""

\* a priority check that lets the value below the range through
ValidPriorityFromZero(priority) == priority \in (MinPriority - 1)..MaxPriority

\* clone_single line 147: priority not in range(1, 6)
ValidPriority(priority) == priority \in MinPriority..MaxPriority

\* lines 138-151: the first check that fails, "" when none does
FieldError(data) ==
    IF Falsy(Text(data)) THEN "Missing required field: text"
    ELSE IF HookUrl(data) = NoHook THEN "Missing required field: hook_url"
    ELSE IF Falsy(SpkAudioPrompt(data))
    THEN "Missing required field: spk_audio_prompt"
    ELSE IF ~ValidPriority(Priority(data))
    THEN "Priority must be between 1 and 5"
    ELSE IF Language(data) \notin SupportedLanguages
    THEN "Unsupported language"
    ELSE ""

\* the request does not get as far as add_task
Rejected(data) == ParamsGetRaises(data) \/ FieldError(data) # ""

\* lines 154-160: the task dict handed to add_task
TaskData(data) ==
    [text |-> Text(data), language |-> Language(data),
     spk_audio_prompt |-> SpkAudioPrompt(data), hook_url |-> HookUrl(data),
     priority |-> Priority(data)]

\* a task_id that is not drawn afresh for the call
NewTaskSameId(task_data, priority) ==
    [task_id |-> 1, priority |-> priority, created_at |-> clock,
     data |-> task_data]

\* QueueManager.add_task lines 82-89: the task with its fresh uuid4
NewTask(task_data, priority) ==
    [task_id |-> nextId, priority |-> priority, created_at |-> clock,
     data |-> task_data]

\* QueueManager.add_task: the ZADD of the serialized task; returns the task_id
AddTask(task_data, priority) ==
    /\ processQueue' = ZAdd(processQueue, NewTask(task_data, priority),
                            CalculateScore(priority, clock))
    /\ nextId' = nextId + 1

\* jsonify({'error': ...}), code
ErrorReply(code, error) ==
    [code |-> code, status |-> "", task_uuid |-> 0, error |-> error]

\* the response of a submission with 200 for 201
QueuedReplyOk(task_id) ==
    [code |-> 200, status |-> "queued", task_uuid |-> task_id, error |-> ""]

\* lines 167-171
QueuedReply(task_id) ==
    [code |-> 201, status |-> "queued", task_uuid |-> task_id, error |-> ""]

\* POST /generate
CloneSingle(data) ==
    /\ IF ParamsGetRaises(data)
       THEN /\ reply' = ErrorReply(500, "AttributeError")
            /\ UNCHANGED <<processQueue, nextId>>
       ELSE IF FieldError(data) # ""
       THEN /\ reply' = ErrorReply(400, FieldError(data))
            /\ UNCHANGED <<processQueue, nextId>>
       ELSE /\ AddTask(TaskData(data), Priority(data))
            /\ reply' = QueuedReply(NewTask(TaskData(data), Priority(data)).task_id)
    /\ UNCHANGED <<clock, uploadQueue, inserted, pw, uw, cn, files, cleanupCfg,
                   publicUrl, bucket, shouldStop, bodies, returned, cancelTrue,
                   posts, delivered, cbEnd>>

(* ------------------------ delete_process_task ------------------------- *)
\* the task_id comparison of line 217 left out
MatchingAny(q, id) == {e.task : e \in q}

\* lines 212-217: ZRANGE 0 -1, then the members whose task_id matches
Matching(q, id) == {e.task : e \in {f \in q : f.task.task_id = id}}

\* the result of ZREM ignored
RemovedAlways(removed_count) == TRUE

\* line 221: removed_count > 0
Removed(removed_count) == removed_count > 0

\* delete_process_task(task_id), lines 212-217: the ZRANGE. With no matching
\* member the loop ends and the call returns False.
DeleteProcessTaskScan(c, id) ==
    /\ cn[c].pc = "idle"
    /\ LET found == Matching(processQueue, id)
       IN  cn' = [cn EXCEPT ![c] =
                    IF found = {} THEN IdleCn
                    ELSE [pc |-> "zrem", id |-> id, found |-> found]]
    /\ UNCHANGED <<clock, nextId, processQueue, uploadQueue, inserted, pw, uw,
                   files, cleanupCfg, publicUrl, bucket, shouldStop, bodies,
                   returned, cancelTrue, posts, delivered, cbEnd>>

\* lines 219-229: the ZREM of a matching member; True when it removed
\* something, else the loop goes on to the next matching member and ends
\* with False
DeleteProcessTaskZrem(c) ==
    /\ cn[c].pc = "zrem"
    /\ \E m \in cn[c].found :
         /\ processQueue' = ZRem(processQueue, m)
         /\ IF Removed(ZRemCount(processQueue, m))
            THEN /\ cancelTrue' = Bump(cancelTrue, cn[c].id)
                 /\ cn' = [cn EXCEPT ![c] = IdleCn]
            ELSE /\ cancelTrue' = cancelTrue
                 /\ cn' = [cn EXCEPT ![c] =
                             IF cn[c].found = {m} THEN IdleCn
                             ELSE [@ EXCEPT !.found = @ \ {m}]]
    /\ UNCHANGED <<clock, nextId, uploadQueue, inserted, pw, uw, files,
                   cleanupCfg, publicUrl, bucket, shouldStop, bodies, returned,
                   posts, delivered, cbEnd>>

\* cancel_task seen from the queue: the steps of its delete_process_task,
\* the response going to a client that is not looked at
DeleteScan(c, id) == DeleteProcessTaskScan(c, id) /\ UNCHANGED reply

DeleteZrem(c) == DeleteProcessTaskZrem(c) /\ UNCHANGED reply

\* a cancel request answered 404 when nothing was removed
CanceledReplyIfDeleted(task_id, deleted) ==
    IF deleted
    THEN [code |-> 200, status |-> "canceled", task_uuid |-> task_id,
          error |-> ""]
    ELSE [code |-> 404, status |-> "", task_uuid |-> 0, error |-> "not found"]

\* cancel_task lines 184-191: the response, after delete_process_task
\* returned deleted
CanceledReply(task_id, deleted) ==
    [code |-> 200, status |-> "canceled", task_uuid |-> task_id, error |-> ""]

\* cancel_task seen from the client: the same steps, the one in which
\* delete_process_task returns giving the response (task_id comes from the
\* route and is never empty)
CancelTaskScan(c, id) ==
    /\ DeleteProcessTaskScan(c, id)
    /\ reply' = IF cn'[c].pc = "idle" THEN CanceledReply(id, FALSE) ELSE reply

CancelTaskZrem(c) ==
    /\ DeleteProcessTaskZrem(c)
    /\ reply' = IF cn'[c].pc = "idle"
                THEN CanceledReply(cn[c].id,
                                   cancelTrue'[cn[c].id] # cancelTrue[cn[c].id])
                ELSE reply
(* -------------------------- process_worker ---------------------------- *)
\* a ZSET read that leaves the member in place (ZRANGE/ZREVRANGE for ZPOPMAX)
ZPopMaxPeek(q, e) == q

\* ZPOPMAX key 1: the queue afterwards
ZPopMaxRest(q, e) == q \ {e}

\* main_voice_processor lines 142-146: should_stop is not set; get_process_task; an empty queue gives
\* None and the loop goes round. Of the task returned the worker keeps
\* task_id and data['hook_url'] (process_single_task lines 67-69); text,
\* language and spk_audio_prompt go to process_single.
GetProcessTask(w) ==
    /\ pw[w].pc = "idle"
    /\ ~shouldStop[w]
    /\ IF processQueue = {}
       THEN UNCHANGED <<processQueue, pw, returned>>
       ELSE \E e \in MaxMembers(processQueue) :
              /\ processQueue' = ZPopMaxRest(processQueue, e)
              /\ pw' = [pw EXCEPT ![w] = [pc |-> "synth",
                                          task |-> e.task.task_id,
                                          hook |-> e.task.data.hook_url]]
              /\ returned' = Bump(returned, e.task.task_id)
    /\ UNCHANGED <<clock, nextId, uploadQueue, inserted, uw, cn, files,
                   cleanupCfg, publicUrl, bucket, shouldStop, reply, bodies,
                   cancelTrue, posts, delivered, cbEnd>>

\* voice_processor.process_single line 204: the output file of a task
OutputPath(task_id) == task_id

\* an upload task that leaves the hook_url out
UploadTaskNoHook(task_id, hook_url) ==
    [task_id |-> task_id, hook_url |-> NoHook,
     output_paths |-> <<OutputPath(task_id)>>, cleanup |-> cleanupCfg]

\* an upload task that names a second file of the task
UploadTaskTwoPaths(task_id, hook_url) ==
    [task_id |-> task_id, hook_url |-> hook_url,
     output_paths |-> <<OutputPath(task_id), OutputPath(task_id) + MaxTasks>>,
     cleanup |-> cleanupCfg]

\* lines 89-94: the upload task built from the task and config['task'], its
\* output_paths the one path process_single returned
UploadTask(task_id, hook_url) ==
    [task_id |-> task_id, hook_url |-> hook_url,
     output_paths |-> <<OutputPath(task_id)>>, cleanup |-> cleanupCfg]

\* process_single_task lines 72-97: process_single returned a path and the
\* LPUSH went through
SynthOk(w) ==
    /\ pw[w].pc = "synth"
    /\ files' = files \cup {OutputPath(pw[w].task)}
    /\ uploadQueue' = LPush(uploadQueue, UploadTask(pw[w].task, pw[w].hook))
    /\ inserted' = Append(inserted, pw[w].task)
    /\ pw' = [pw EXCEPT ![w] = IdlePw]
    /\ UNCHANGED <<clock, nextId, processQueue, uw, cn, cleanupCfg, publicUrl, bucket,
                   shouldStop, reply, bodies, returned, cancelTrue,
                   posts, delivered, cbEnd>>

\* requests: raise_for_status() raises for 4xx and 5xx
RaisesHttpError(resp) ==
    resp.kind = "http" /\ 400 <= resp.code /\ resp.code < 600

\* a POST that returned and did not raise
Answered(resp) == resp.kind = "http" /\ ~RaisesHttpError(resp)

\* no HTTP error taken for permanent
PermanentNever(resp) == FALSE

\* send_callback line 84: a permanent HTTP error
Permanent(resp) ==
    /\ RaisesHttpError(resp)
    /\ 400 <= resp.code /\ resp.code < 500
    /\ resp.code \notin {408, 429}

\* how a callback call ends after the POST numbered nposts got resp, when it
\* makes no further POST: answered, given up on a permanent error, out of
\* attempts, or given up on a transient error with attempts left
CallEnd(resp, nposts) ==
    IF Answered(resp) THEN "answered"
    ELSE IF Permanent(resp) THEN "permanent"
    ELSE IF nposts >= MAX_RETRIES THEN "exhausted"
    ELSE "transient"

(* the JSON bodies of the callbacks: the keys present and, of the values, *)
(* the status and the error_code                                          *)
BaseFields == {"task_uuid", "status", "timestamp"}
AUDIO_TOO_QUIET == "AUDIO_TOO_QUIET"
\* error_code = None
NoErrorCode == ""
\* str(e) of an AudioTooQuietError, and the prefixes of the other messages
QuietMessage == "audio too quiet"
VoiceCloneFailed == "Voice clone failed"
UploadFailed == "R2 upload/Callback failed"

\* a failure body that never carries an error_code
FailureDataNoCode(error, error_code) ==
    [status |-> "failed", fields |-> BaseFields \cup {"error_message"},
     error_code |-> NoErrorCode, s3_url |-> EmptyStr]

\* send_callback_failure lines 37-46: callback_data
FailureData(error, error_code) ==
    [status |-> "failed",
     fields |-> BaseFields \cup {"error_message"}
                  \cup (IF error_code # NoErrorCode THEN {"error_code"} ELSE {}),
     error_code |-> error_code, s3_url |-> EmptyStr]

\* R2Uploader.upload_file lines 122-126 with the object_key process_upload_task
\* passes: os.path.basename(output_path).lstrip('/'), the name of the file
ObjectKey(output_path) == <<ToString(output_path), "_output.wav">>

\* upload_file returning file_url, None when public_url is not set
FileUrlOrNone(public_url, object_key) ==
    IF public_url # EmptyStr THEN public_url \o <<"/">> \o object_key
    ELSE EmptyStr

\* R2Uploader.upload_file lines 152-156: the value returned, file_url or
\* object_key
FileUrl(public_url, object_key) ==
    LET file_url == IF public_url # EmptyStr
                    THEN public_url \o <<"/">> \o object_key
                    ELSE EmptyStr
    IN  IF file_url # EmptyStr THEN file_url ELSE object_key

\* a callback_data that gets its s3_url whatever the status
CallbackDataWithUrl(status, result, error, error_code) ==
    [status |-> status,
     fields |-> BaseFields \cup {"s3_url"}
                  \cup (IF status = "failed" THEN {"error_message"} ELSE {}),
     error_code |-> NoErrorCode, s3_url |-> result]

\* send_callback lines 40-58: callback_data (result is a str or None)
CallbackData(status, result, error, error_code) ==
    [status |-> status,
     fields |-> BaseFields
                  \cup (IF status = "success" THEN {"s3_url"} ELSE {})
                  \cup (IF status = "failed" THEN {"error_message"} ELSE {})
                  \cup (IF status = "failed" /\ error_code # NoErrorCode
                        THEN {"error_code"} ELSE {}),
     error_code |-> IF status = "failed" THEN error_code ELSE NoErrorCode,
     s3_url |-> IF status = "success" THEN result ELSE EmptyStr]

\* the callback skipped (the early return of line 35 taken)
SendCallbackFailureSkipped(id, error, error_code, resp) ==
    UNCHANGED <<posts, delivered, cbEnd, bodies>>

\* send_callback_failure lines 37-55: one POST; whatever it raises is logged
\* and the function returns
SendCallbackFailure(id, error, error_code, resp) ==
    /\ posts' = [posts EXCEPT ![id] = @ \cup {"failed"}]
    /\ bodies' = [bodies EXCEPT ![id] = @ \cup {FailureData(error, error_code)}]
    /\ delivered' = [delivered EXCEPT ![id] =
                       IF Answered(resp) THEN @ \cup {"failed"} ELSE @]
    /\ cbEnd' = [cbEnd EXCEPT ![id] = CallEnd(resp, 1)]

\* the "reference audio too quiet" failure of the synthesis engine: an
\* AudioTooQuietError raised with a message, the measured level, the
\* threshold and the default error_code
QuietError ==
    [message |-> QuietMessage, rms_level |-> "measured",
     threshold |-> "threshold", error_code |-> AUDIO_TOO_QUIET]

\* a failure that also pushes a result for the task
SynthFailsPushes(w, quiet, resp) ==
    /\ pw[w].pc = "synth"
    /\ resp \in EndpointAnswers(pw[w].hook, 0)
    /\ SendCallbackFailure(pw[w].task, VoiceCloneFailed, NoErrorCode, resp)
    /\ uploadQueue' = LPush(uploadQueue, UploadTask(pw[w].task, pw[w].hook))
    /\ inserted' = Append(inserted, pw[w].task)
    /\ pw' = [pw EXCEPT ![w] = IdlePw]
    /\ UNCHANGED <<clock, nextId, processQueue, uw, cn, files, cleanupCfg,
                   publicUrl, bucket, shouldStop, reply, returned, cancelTrue>>

\* process_single raised: AudioTooQuietError (lines 99-110, the callback
\* carries e.error_code) or anything else (lines 113-123); output_path is
\* still None, the failure callback is sent to the task's hook_url (truthy
\* for every admitted task) and the worker goes back to its loop
SynthFails(w, quiet, resp) ==
    /\ pw[w].pc = "synth"
    /\ resp \in EndpointAnswers(pw[w].hook, 0)
    /\ IF quiet
       THEN SendCallbackFailure(pw[w].task, QuietError.message,
                                QuietError.error_code, resp)
       ELSE SendCallbackFailure(pw[w].task, VoiceCloneFailed, NoErrorCode, resp)
    /\ pw' = [pw EXCEPT ![w] = IdlePw]
    /\ UNCHANGED <<clock, nextId, processQueue, uploadQueue, inserted, uw, cn,
                   files, cleanupCfg, publicUrl, bucket, shouldStop, reply,
                   returned, cancelTrue>>

\* process_single returned a path and push_upload_task raised: the generic
\* handler (lines 113-123) sends the failure callback and removes the file
PushFails(w, resp) ==
    /\ pw[w].pc = "synth"
    /\ resp \in EndpointAnswers(pw[w].hook, 0)
    /\ SendCallbackFailure(pw[w].task, VoiceCloneFailed, NoErrorCode, resp)
    /\ files' = files \ {OutputPath(pw[w].task)}
    /\ pw' = [pw EXCEPT ![w] = IdlePw]
    /\ UNCHANGED <<clock, nextId, processQueue, uploadQueue, inserted, uw, cn,
                   cleanupCfg, publicUrl, bucket, shouldStop, reply, returned,
                   cancelTrue>>

\* process_single_task lines 80-94 seen step by step: process_single has
\* returned output_path, the file is on the disk, and the upload task is
\* built; push_upload_task is to come
SynthDone(w) ==
    /\ pw[w].pc = "synth"
    /\ files' = files \cup {OutputPath(pw[w].task)}
    /\ pw' = [pw EXCEPT ![w] = [@ EXCEPT !.pc = "push"]]
    /\ UNCHANGED <<clock, nextId, processQueue, uploadQueue, inserted, uw, cn,
                   cleanupCfg, publicUrl, bucket, shouldStop, reply, bodies,
                   returned, cancelTrue, posts, delivered, cbEnd>>

\* line 95: the LPUSH went through
PushOk(w) ==
    /\ pw[w].pc = "push"
    /\ uploadQueue' = LPush(uploadQueue, UploadTask(pw[w].task, pw[w].hook))
    /\ inserted' = Append(inserted, pw[w].task)
    /\ pw' = [pw EXCEPT ![w] = IdlePw]
    /\ UNCHANGED <<clock, nextId, processQueue, uw, cn, files, cleanupCfg,
                   publicUrl, bucket, shouldStop, reply, bodies, returned,
                   cancelTrue, posts, delivered, cbEnd>>

\* a handler that sends the failure callback and leaves the file
PushRaisesKeepsFile(w, resp) ==
    /\ pw[w].pc = "push"
    /\ resp \in EndpointAnswers(pw[w].hook, 0)
    /\ SendCallbackFailure(pw[w].task, VoiceCloneFailed, NoErrorCode, resp)
    /\ pw' = [pw EXCEPT ![w] = IdlePw]
    /\ UNCHANGED <<clock, nextId, processQueue, uploadQueue, inserted, uw, cn,
                   files, cleanupCfg, publicUrl, bucket, shouldStop, reply,
                   returned, cancelTrue>>

\* line 95 raised, nothing was added to the list: the generic handler
\* (lines 113-123) sends the failure callback, then removes output_path
PushRaises(w, resp) ==
    /\ pw[w].pc = "push"
    /\ resp \in EndpointAnswers(pw[w].hook, 0)
    /\ SendCallbackFailure(pw[w].task, VoiceCloneFailed, NoErrorCode, resp)
    /\ files' = files \ {OutputPath(pw[w].task)}
    /\ pw' = [pw EXCEPT ![w] = IdlePw]
    /\ UNCHANGED <<clock, nextId, processQueue, uploadQueue, inserted, uw, cn,
                   cleanupCfg, publicUrl, bucket, shouldStop, reply, returned,
                   cancelTrue>>

(* --------------------------- upload_worker ---------------------------- *)
\* a sequence of ids with one id taken out
Without(ids, id) == SelectSeq(ids, LAMBDA x : x # id)

\* main_uploader_processor lines 181-183: BRPOP; a timeout on an empty list
\* gives None and the loop goes round
GetUploadTask(u) ==
    /\ uw[u].pc = "idle"
    /\ ~shouldStop[u]
    /\ IF uploadQueue = <<>>
       THEN UNCHANGED <<uploadQueue, inserted, uw>>
       ELSE /\ uploadQueue' = RPopRest(uploadQueue)
            /\ inserted' = Without(inserted, RPopItem(uploadQueue).task_id)
            /\ uw' = [uw EXCEPT ![u] = [IdleUw EXCEPT !.pc = "upload",
                                            !.task = RPopItem(uploadQueue)]]
    /\ UNCHANGED <<clock, nextId, processQueue, pw, cn, files, cleanupCfg,
                   publicUrl, bucket, shouldStop, reply, bodies, returned,
                   cancelTrue, posts, delivered, cbEnd>>

\* a cleanup that removes nothing
CleanupNothing(fs, output_paths, should_cleanup) == fs

\* cleanup_local_files lines 105-112: the files left on disk, every path of
\* output_paths that exists removed
CleanupLocalFiles(fs, output_paths, should_cleanup) ==
    IF should_cleanup
    THEN fs \ {output_paths[i] : i \in 1..Len(output_paths)}
    ELSE fs

\* process_upload_task lines 147 and 160: the status of the callback
CallbackStatus(uploaded) == IF uploaded THEN "success" ELSE "failed"

\* process_upload_task lines 130-143 and 151-156: upload_file is called for
\* output_paths[0] alone and puts the object or raises (it raises
\* FileNotFoundError when the file is gone); either way cleanup_local_files
\* runs next on all of output_paths, then send_callback is entered
UploadFile(u, uploaded) ==
    /\ uw[u].pc = "upload"
    /\ uploaded => uw[u].task.output_paths[1] \in files
    /\ bucket' = IF uploaded
                 THEN bucket \cup {ObjectKey(uw[u].task.output_paths[1])}
                 ELSE bucket
    /\ files' = CleanupLocalFiles(files, uw[u].task.output_paths,
                                  uw[u].task.cleanup)
    /\ uw' = [uw EXCEPT ![u] = [@ EXCEPT !.pc = "cb",
                                         !.status = CallbackStatus(uploaded)]]
    /\ UNCHANGED <<clock, nextId, processQueue, uploadQueue, inserted, pw, cn,
                   cleanupCfg, publicUrl, shouldStop, reply, bodies,
                   returned, cancelTrue, posts, delivered, cbEnd>>

\* send_callback line 65 in units of 1 / JitterSteps s:
\* INITIAL_DELAY * (2 ** attempt) + (time.time() * 0.01) % 1
Delay(attempt, jitter) == INITIAL_DELAY * (2 ^ attempt) * JitterSteps + jitter

\* the sleep without its upper limit
SleepUncapped(attempt, jitter) ==
    IF attempt > 0 THEN Delay(attempt, jitter) ELSE 0

\* lines 67-70: the time slept at the start of the pass, none in pass 0
Sleep(attempt, jitter) ==
    IF attempt > 0
    THEN IF Delay(attempt, jitter) < MaxSleep * JitterSteps
         THEN Delay(attempt, jitter)
         ELSE MaxSleep * JitterSteps
    ELSE 0

\* range(MAX_RETRIES + 1)
LoopGoesOnOneMore(attempt) == attempt < MAX_RETRIES

\* send_callback line 63: for attempt in range(MAX_RETRIES)
LoopGoesOn(attempt) == attempt + 1 < MAX_RETRIES

\* a call that ends with its first POST whatever the response
CallOverAlways(rec, resp) == TRUE

\* send_callback lines 78-98: after the POST of this pass the call returns
\* (line 81), breaks (lines 87, 98) or goes to the next pass
CallOver(rec, resp) ==
    Answered(resp) \/ Permanent(resp) \/ ~LoopGoesOn(rec.attempt)

\* a success callback that could not be delivered followed by a failure
\* callback for the same task
AfterPostFallback(rec, resp) ==
    IF ~CallOver(rec, resp)
    THEN [rec EXCEPT !.attempt = @ + 1, !.nposts = @ + 1]
    ELSE IF ~Answered(resp) /\ rec.status = "success"
    THEN [rec EXCEPT !.status = "failed", !.attempt = 0, !.nposts = 0]
    ELSE IdleUw

\* the worker after the POST: back in its loop once send_callback is over
\* (process_upload_task sends nothing else), else in the next pass
AfterPost(rec, resp) ==
    IF CallOver(rec, resp)
    THEN IdleUw
    ELSE [rec EXCEPT !.attempt = @ + 1, !.nposts = @ + 1]

\* the start of the next pass, if there is one: the sleep of lines 65-70
NextPass(rec, jitter) ==
    IF rec.pc = "cb" THEN [rec EXCEPT !.wait = Sleep(rec.attempt, jitter)]
    ELSE rec

\* send_callback lines 63-100, one turn of the loop: the POST, what follows
\* it, and the sleep that opens the next pass
Post(u, resp, jitter) ==
    /\ uw[u].pc = "cb"
    /\ resp \in EndpointAnswers(uw[u].task.hook_url, uw[u].nposts)
    /\ LET id == uw[u].task.task_id
           st == uw[u].status
           file_url == FileUrl(publicUrl, ObjectKey(uw[u].task.output_paths[1]))
       IN  /\ posts' = [posts EXCEPT ![id] = @ \cup {st}]
           /\ bodies' = [bodies EXCEPT ![id] =
                           @ \cup {CallbackData(st, file_url, UploadFailed,
                                                NoErrorCode)}]
           /\ delivered' = [delivered EXCEPT ![id] =
                              IF Answered(resp) THEN @ \cup {st} ELSE @]
           /\ cbEnd' = [cbEnd EXCEPT ![id] =
                          IF CallOver(uw[u], resp)
                          THEN CallEnd(resp, uw[u].nposts + 1)
                          ELSE "none"]
    /\ uw' = [uw EXCEPT ![u] = NextPass(AfterPost(uw[u], resp), jitter)]
    /\ UNCHANGED <<clock, nextId, processQueue, uploadQueue, inserted, pw, cn,
                   files, cleanupCfg, publicUrl, bucket, shouldStop, reply,
                   returned, cancelTrue>>

(* ---------------------------- worker loops ---------------------------- *)
\* a worker that leaves its loop when an exception reaches it
AfterErrorExits(rec) == [rec EXCEPT !.pc = "stopped"]

\* lines 149-151 of process_worker.py, 186-188 of upload_worker.py: the
\* exception is logged and the worker sleeps 5 s inside its loop
AfterError(rec) == [rec EXCEPT !.pc = "paused"]

\* signal_handler of either worker process: SIGINT or SIGTERM sets its
\* should_stop
Signal(p) ==
    /\ ~shouldStop[p]
    /\ shouldStop' = [shouldStop EXCEPT ![p] = TRUE]
    /\ UNCHANGED <<clock, nextId, processQueue, uploadQueue, inserted, pw, uw,
                   cn, files, cleanupCfg, publicUrl, bucket, reply, bodies, returned,
                   cancelTrue, posts, delivered, cbEnd>>

\* main_voice_processor line 145: get_process_task raises (Redis cannot be
\* reached); nothing was taken from the queue
ProcessFetchRaises(w) ==
    /\ pw[w].pc = "idle"
    /\ ~shouldStop[w]
    /\ pw' = [pw EXCEPT ![w] = AfterError(IdlePw)]
    /\ UNCHANGED <<clock, nextId, processQueue, uploadQueue, inserted, uw, cn,
                   files, cleanupCfg, publicUrl, bucket, shouldStop, reply, bodies,
                   returned, cancelTrue, posts, delivered, cbEnd>>

\* main_voice_processor line 147: an exception leaves process_single_task,
\* raised before its try block (lines 67-69) or in one of its handlers
\* before the failure callback (the log call of line 102); the task is
\* dropped
ProcessTaskRaises(w) ==
    /\ pw[w].pc = "synth"
    /\ pw' = [pw EXCEPT ![w] = AfterError(IdlePw)]
    /\ UNCHANGED <<clock, nextId, processQueue, uploadQueue, inserted, uw, cn,
                   files, cleanupCfg, publicUrl, bucket, shouldStop, reply, bodies,
                   returned, cancelTrue, posts, delivered, cbEnd>>

\* the sleep of line 151 is over: back to the loop head
ProcessResumes(w) ==
    /\ pw[w].pc = "paused"
    /\ pw' = [pw EXCEPT ![w] = IdlePw]
    /\ UNCHANGED <<clock, nextId, processQueue, uploadQueue, inserted, uw, cn,
                   files, cleanupCfg, publicUrl, bucket, shouldStop, reply, bodies,
                   returned, cancelTrue, posts, delivered, cbEnd>>

\* main_voice_processor lines 142-145 with the signal between them: the
\* loop-head test found should_stop unset, signal_handler ran, and
\* get_process_task then returned a task
GetProcessTaskSignalled(w) ==
    /\ pw[w].pc = "idle"
    /\ ~shouldStop[w]
    /\ processQueue # {}
    /\ shouldStop' = [shouldStop EXCEPT ![w] = TRUE]
    /\ \E e \in MaxMembers(processQueue) :
         /\ processQueue' = ZPopMaxRest(processQueue, e)
         /\ pw' = [pw EXCEPT ![w] = [pc |-> "synth",
                                     task |-> e.task.task_id,
                                     hook |-> e.task.data.hook_url]]
         /\ returned' = Bump(returned, e.task.task_id)
    /\ UNCHANGED <<clock, nextId, uploadQueue, inserted, uw, cn, files,
                   cleanupCfg, publicUrl, bucket, reply, bodies, cancelTrue,
                   posts, delivered, cbEnd>>

\* main_uploader_processor lines 178-181 with the signal during the BRPOP:
\* signal_handler ran while the call was blocked, the call went on and
\* returned a Result
GetUploadTaskSignalled(u) ==
    /\ uw[u].pc = "idle"
    /\ ~shouldStop[u]
    /\ uploadQueue # <<>>
    /\ shouldStop' = [shouldStop EXCEPT ![u] = TRUE]
    /\ uploadQueue' = RPopRest(uploadQueue)
    /\ inserted' = Without(inserted, RPopItem(uploadQueue).task_id)
    /\ uw' = [uw EXCEPT ![u] = [IdleUw EXCEPT !.pc = "upload",
                                     !.task = RPopItem(uploadQueue)]]
    /\ UNCHANGED <<clock, nextId, processQueue, pw, cn, files, cleanupCfg,
                   publicUrl, bucket, reply, bodies, returned, cancelTrue,
                   posts, delivered, cbEnd>>

\* a process that ends as soon as the signal has come, whatever it has in
\* hand (the default action of SIGTERM)
ProcessStopsAtOnce(w) ==
    /\ pw[w].pc \in {"idle", "synth"}
    /\ shouldStop[w]
    /\ pw' = [pw EXCEPT ![w] = [IdlePw EXCEPT !.pc = "stopped"]]
    /\ UNCHANGED <<clock, nextId, processQueue, uploadQueue, inserted, uw, cn,
                   files, cleanupCfg, publicUrl, bucket, shouldStop, reply,
                   bodies, returned, cancelTrue, posts, delivered, cbEnd>>

\* line 142: `while not should_stop` ends the loop
ProcessStops(w) ==
    /\ pw[w].pc = "idle"
    /\ shouldStop[w]
    /\ pw' = [pw EXCEPT ![w] = [IdlePw EXCEPT !.pc = "stopped"]]
    /\ UNCHANGED <<clock, nextId, processQueue, uploadQueue, inserted, uw, cn,
                   files, cleanupCfg, publicUrl, bucket, shouldStop, reply, bodies,
                   returned, cancelTrue, posts, delivered, cbEnd>>

\* main_uploader_processor line 181: get_upload_task raises
UploadFetchRaises(u) ==
    /\ uw[u].pc = "idle"
    /\ ~shouldStop[u]
    /\ uw' = [uw EXCEPT ![u] = AfterError(IdleUw)]
    /\ UNCHANGED <<clock, nextId, processQueue, uploadQueue, inserted, pw, cn,
                   files, cleanupCfg, publicUrl, bucket, shouldStop, reply, bodies,
                   returned, cancelTrue, posts, delivered, cbEnd>>

\* main_uploader_processor line 184: an exception leaves process_upload_task,
\* raised before its try block (lines 125-128) or in its except branch
\* before the callback (the os.remove of cleanup_local_files, line 111);
\* the Result is dropped
UploadTaskRaises(u) ==
    /\ uw[u].pc = "upload"
    /\ uw' = [uw EXCEPT ![u] = AfterError(IdleUw)]
    /\ UNCHANGED <<clock, nextId, processQueue, uploadQueue, inserted, pw, cn,
                   files, cleanupCfg, publicUrl, bucket, shouldStop, reply, bodies,
                   returned, cancelTrue, posts, delivered, cbEnd>>

\* the sleep of line 188 is over
UploadResumes(u) ==
    /\ uw[u].pc = "paused"
    /\ uw' = [uw EXCEPT ![u] = IdleUw]
    /\ UNCHANGED <<clock, nextId, processQueue, uploadQueue, inserted, pw, cn,
                   files, cleanupCfg, publicUrl, bucket, shouldStop, reply, bodies,
                   returned, cancelTrue, posts, delivered, cbEnd>>

\* line 178: `while not should_stop` ends the loop
UploadStops(u) ==
    /\ uw[u].pc = "idle"
    /\ shouldStop[u]
    /\ uw' = [uw EXCEPT ![u] = [IdleUw EXCEPT !.pc = "stopped"]]
    /\ UNCHANGED <<clock, nextId, processQueue, uploadQueue, inserted, pw, cn,
                   files, cleanupCfg, publicUrl, bucket, shouldStop, reply, bodies,
                   returned, cancelTrue, posts, delivered, cbEnd>>

(* --------------------------- specifications --------------------------- *)
\* The pipeline end to end: submissions at the default priority to an
\* endpoint that may answer anything, one cancel request at a time, both
\* Voice Processor workers, the Uploader worker whose sleeps have no jitter.
\* Equal scores leave ZPOPMAX free to return the pending tasks in any order.
Next ==
    \/ nextId <= MaxTasks /\ CloneSingle(Request(AnyHook, AbsentInt))
    \/ \E id \in TaskIds : DeleteScan(PipelineCanceller, id)
    \/ DeleteZrem(PipelineCanceller)
    \/ \E w \in ProcessWorkers : GetProcessTask(w)
    \/ \E w \in ProcessWorkers : SynthOk(w)
    \/ \E w \in ProcessWorkers, resp \in Responses : SynthFails(w, FALSE, resp)
    \/ \E w \in ProcessWorkers, resp \in Responses : PushFails(w, resp)
    \/ \E u \in UploadWorkers : GetUploadTask(u)
    \/ \E u \in UploadWorkers, ok \in BOOLEAN : UploadFile(u, ok)
    \/ \E u \in UploadWorkers, resp \in Responses : Post(u, resp, NoJitter)

Spec == Init /\ [][Next]_vars

\* The Process Queue under load: submissions of every valid priority while
\* the clock advances, concurrent cancel requests, both Voice Processor
\* workers. A worker is freed by a synthesis that succeeds or fails; the
\* hook_url endpoint answers 200 or 500.
QueueInit == Init /\ cleanupCfg

QueueResponses == {r \in Responses : r.code \in {200, 500}}

QueueNext ==
    \/ Tick
    \/ nextId <= MaxTasks
         /\ \E p \in MinPriority..MaxPriority :
               CloneSingle(Request(AnyHook, Some(p)))
    \/ \E c \in Cancellers, id \in TaskIds : DeleteScan(c, id)
    \/ \E c \in Cancellers : DeleteZrem(c)
    \/ \E w \in ProcessWorkers : GetProcessTask(w)
    \/ \E w \in ProcessWorkers : SynthOk(w)
    \/ \E w \in ProcessWorkers, resp \in QueueResponses :
          SynthFails(w, TRUE, resp)

QueueSpec == QueueInit /\ [][QueueNext]_vars

\* The pipeline with the scheduling the deployment gives: every worker
\* process keeps running its loop, process_single and upload_file return or
\* raise, and every POST ends (timeout=10).
WorkerStep(w) ==
    \/ GetProcessTask(w)
    \/ SynthOk(w)
    \/ \E resp \in Responses : SynthFails(w, FALSE, resp)
    \/ \E resp \in Responses : PushFails(w, resp)

UploaderStep(u) ==
    \/ GetUploadTask(u)
    \/ \E ok \in BOOLEAN : UploadFile(u, ok)
    \/ \E resp \in Responses : Post(u, resp, NoJitter)

LiveSpec ==
    /\ Init
    /\ [][Next]_vars
    /\ \A w \in ProcessWorkers : WF_vars(WorkerStep(w))
    /\ \A u \in UploadWorkers : WF_vars(UploaderStep(u))

\* nothing is pending, queued for upload or at a worker
PipelineEmpty ==
    /\ processQueue = {} /\ uploadQueue = <<>>
    /\ \A w \in ProcessWorkers : pw[w].pc = "idle"
    /\ \A u \in UploadWorkers : uw[u].pc = "idle"

\* Callback delivery: one task at a time goes through one Voice Processor
\* worker and the Uploader worker, its hook_url leading to a scripted
\* endpoint; the jitter of every sleep is free.
CallbackNext ==
    \/ nextId <= MaxTasks /\ PipelineEmpty
         /\ \E h \in ScriptedHooks : CloneSingle(Request(h, AbsentInt))
    \/ GetProcessTask("pw1")
    \/ SynthOk("pw1")
    \/ \E quiet \in BOOLEAN, resp \in ScriptResponses :
          SynthFails("pw1", quiet, resp)
    \/ \E u \in UploadWorkers : GetUploadTask(u)
    \/ \E u \in UploadWorkers, ok \in BOOLEAN : UploadFile(u, ok)
    \/ \E u \in UploadWorkers, resp \in ScriptResponses, jitter \in Jitters :
          Post(u, resp, jitter)

CallbackSpec == Init /\ [][CallbackNext]_vars

\* The submission endpoint: any body a client may send, while tasks are
\* dequeued, cancelled and turned into results. Bodies that are rejected
\* keep coming when every id is handed out.
ApiNext ==
    \/ \E data \in Requests :
          /\ nextId <= MaxTasks \/ Rejected(data)
          /\ CloneSingle(data)
    \/ \E id \in TaskIds : CancelTaskScan(PipelineCanceller, id)
    \/ CancelTaskZrem(PipelineCanceller)
    \/ GetProcessTask("pw1")
    \/ SynthOk("pw1")
    \/ \E u \in UploadWorkers : GetUploadTask(u)

ApiSpec == QueueInit /\ [][ApiNext]_vars

\* Delivery: results of tasks of the lowest and of the highest priority,
\* pushed by both Voice Processor workers in either order, go to the one
\* Uploader worker; config['r2']['public_url'] is set or not; the endpoint
\* answers 200 or 500.
DeliveryInit ==
    Started /\ \E v \in ConfigPublicUrls : publicUrl = RStripSlash(v)

DeliveryNext ==
    \/ nextId <= MaxTasks
         /\ \E p \in {MinPriority, MaxPriority} :
               CloneSingle(Request(AnyHook, Some(p)))
    \/ \E w \in ProcessWorkers : GetProcessTask(w)
    \/ \E w \in ProcessWorkers : SynthOk(w)
    \/ \E u \in UploadWorkers : GetUploadTask(u)
    \/ \E u \in UploadWorkers, ok \in BOOLEAN : UploadFile(u, ok)
    \/ \E u \in UploadWorkers, resp \in QueueResponses :
          Post(u, resp, NoJitter)

DeliverySpec == DeliveryInit /\ [][DeliveryNext]_vars

\* The worker loops: one Voice Processor worker and the Uploader worker
\* serve tasks while Redis calls and task handling may raise and either
\* process may get its shutdown signal; the endpoint answers 200.
LoopWorker == "pw1"

LoopNext ==
    \/ nextId <= MaxTasks /\ CloneSingle(PlainRequest)
    \/ \E p \in {LoopWorker} \cup UploadWorkers : Signal(p)
    \/ GetProcessTask(LoopWorker)
    \/ SynthOk(LoopWorker)
    \/ SynthFails(LoopWorker, FALSE, OkResponse)
    \/ PushFails(LoopWorker, OkResponse)
    \/ ProcessFetchRaises(LoopWorker)
    \/ ProcessTaskRaises(LoopWorker)
    \/ ProcessResumes(LoopWorker)
    \/ ProcessStops(LoopWorker)
    \/ \E u \in UploadWorkers : GetUploadTask(u)
    \/ \E u \in UploadWorkers, ok \in BOOLEAN : UploadFile(u, ok)
    \/ \E u \in UploadWorkers : Post(u, OkResponse, NoJitter)
    \/ \E u \in UploadWorkers : UploadFetchRaises(u)
    \/ \E u \in UploadWorkers : UploadTaskRaises(u)
    \/ \E u \in UploadWorkers : UploadResumes(u)
    \/ \E u \in UploadWorkers : UploadStops(u)

\* the sleeps end
LoopSpec ==
    /\ QueueInit
    /\ [][LoopNext]_vars
    /\ WF_vars(ProcessResumes(LoopWorker))
    /\ \A u \in UploadWorkers : WF_vars(UploadResumes(u))


\* Cancel requests against the running pipeline: both Voice Processor
\* workers and the Uploader serve the tasks while a client cancels any
\* task_uuid at any time; the endpoint answers 200 or 500, and the workers
\* keep taking their steps.
CancelNext ==
    \/ nextId <= MaxTasks /\ CloneSingle(PlainRequest)
    \/ \E id \in TaskIds : DeleteScan(PipelineCanceller, id)
    \/ DeleteZrem(PipelineCanceller)
    \/ \E w \in ProcessWorkers : GetProcessTask(w)
    \/ \E w \in ProcessWorkers : SynthOk(w)
    \/ \E w \in ProcessWorkers : SynthFails(w, FALSE, OkResponse)
    \/ \E u \in UploadWorkers : GetUploadTask(u)
    \/ \E u \in UploadWorkers, ok \in BOOLEAN : UploadFile(u, ok)
    \/ \E u \in UploadWorkers, resp \in QueueResponses : Post(u, resp, NoJitter)

CancelSpec ==
    /\ Init
    /\ [][CancelNext]_vars
    /\ \A w \in ProcessWorkers : WF_vars(WorkerStep(w))
    /\ \A u \in UploadWorkers : WF_vars(UploaderStep(u))

\* Delivery scaled out: two Uploader processes drain the one Upload Queue
\* that both Voice Processor workers fill; the endpoint answers 200 or 500.
DrainNext ==
    \/ nextId <= MaxTasks /\ CloneSingle(PlainRequest)
    \/ \E w \in ProcessWorkers : GetProcessTask(w)
    \/ \E w \in ProcessWorkers : SynthOk(w)
    \/ \E u \in AllUploadWorkers : GetUploadTask(u)
    \/ \E u \in AllUploadWorkers, ok \in BOOLEAN : UploadFile(u, ok)
    \/ \E u \in AllUploadWorkers, resp \in QueueResponses :
          Post(u, resp, NoJitter)

DrainSpec == QueueInit /\ [][DrainNext]_vars

\* Shutdown: the Voice Processor worker and the Uploader get their signal at
\* any moment, also between the loop-head test and the fetch, while tasks
\* are submitted and handled; the endpoint answers 200 or 500. The workers
\* keep taking their steps.
ShutdownNext ==
    \/ nextId <= MaxTasks /\ CloneSingle(PlainRequest)
    \/ \E p \in {LoopWorker} \cup UploadWorkers : Signal(p)
    \/ GetProcessTask(LoopWorker)
    \/ GetProcessTaskSignalled(LoopWorker)
    \/ SynthOk(LoopWorker)
    \/ SynthFails(LoopWorker, FALSE, OkResponse)
    \/ ProcessStops(LoopWorker)
    \/ \E u \in UploadWorkers : GetUploadTask(u)
    \/ \E u \in UploadWorkers : GetUploadTaskSignalled(u)
    \/ \E u \in UploadWorkers, ok \in BOOLEAN : UploadFile(u, ok)
    \/ \E u \in UploadWorkers, resp \in QueueResponses :
          Post(u, resp, NoJitter)
    \/ \E u \in UploadWorkers : UploadStops(u)

ShutdownSpec ==
    /\ QueueInit
    /\ [][ShutdownNext]_vars
    /\ WF_vars(WorkerStep(LoopWorker) \/ ProcessStops(LoopWorker))
    /\ \A u \in UploadWorkers : WF_vars(UploaderStep(u) \/ UploadStops(u))

\* The hand-over from synthesis to delivery step by step: the output file
\* is written, then the push to the Upload Queue goes through or raises;
\* the policy of cleanup_after_upload is either, the endpoint answers 200 or
\* 500.
PushNext ==
    \/ nextId <= MaxTasks /\ CloneSingle(PlainRequest)
    \/ \E w \in ProcessWorkers : GetProcessTask(w)
    \/ \E w \in ProcessWorkers : SynthDone(w)
    \/ \E w \in ProcessWorkers : PushOk(w)
    \/ \E w \in ProcessWorkers, resp \in QueueResponses : PushRaises(w, resp)
    \/ \E w \in ProcessWorkers, resp \in QueueResponses :
          SynthFails(w, FALSE, resp)
    \/ \E u \in UploadWorkers : GetUploadTask(u)
    \/ \E u \in UploadWorkers, ok \in BOOLEAN : UploadFile(u, ok)
    \/ \E u \in UploadWorkers : Post(u, OkResponse, NoJitter)

PushSpec == Init /\ [][PushNext]_vars

(* ------------------------- state of a task ---------------------------- *)
Admitted(id) == id < nextId
Pending(id) == \E e \in processQueue : e.task.task_id = id
Canceled(id) == cancelTrue[id] > 0
AtProcessWorker(id) == \E w \in ProcessWorkers : pw[w].task = id
AtUploadWorker(id) == \E u \in UploadWorkers : uw[u].task.task_id = id
InFlight(id) == AtProcessWorker(id) \/ AtUploadWorker(id)
InUploadQueue(id) ==
    \E i \in 1..Len(uploadQueue) : uploadQueue[i].task_id = id
SuccessDelivered(id) == "success" \in delivered[id]
FailureDelivered(id) == "failed" \in delivered[id]
Undelivered(id) == posts[id] # {} /\ delivered[id] = {} /\ ~InFlight(id)

\* a step in which get_process_task returns a task to worker w
Dequeues(w) == pw[w].pc = "idle" /\ pw'[w].pc = "synth"
\* the member that step returns
Dequeued(w) == CHOOSE e \in processQueue : e.task.task_id = pw'[w].task

(* ------------------------------ claims -------------------------------- *)
\* C1: when get_process_task returns a task, no task pending with it that was
\* admitted at the same time has a strictly higher priority value.
C1_PriorityDominance ==
    [][\A w \in ProcessWorkers :
         Dequeues(w) =>
           \A f \in processQueue :
             f.task.created_at = Dequeued(w).task.created_at
               => f.task.priority <= Dequeued(w).task.priority]_vars

\* C2: when get_process_task returns a task, no task of the same priority
\* pending with it was admitted earlier; and two pending tasks of one
\* priority admitted at distinct times never have equal scores.
C2_FifoWithinPriority ==
    /\ [][\A w \in ProcessWorkers :
            Dequeues(w) =>
              \A f \in processQueue :
                f.task.priority = Dequeued(w).task.priority
                  => Dequeued(w).task.created_at <= f.task.created_at]_vars
    /\ [](\A e, f \in processQueue :
            (e.task.priority = f.task.priority
               /\ e.task.created_at # f.task.created_at)
              => e.score # f.score)

\* C3: no task is returned by get_process_task twice, no two workers hold the
\* same task, and a get_process_task on an empty queue returns no task.
C3_ExactlyOnceDequeue ==
    /\ [](\A id \in TaskIds : returned[id] <= 1)
    /\ [](\A v, w \in ProcessWorkers :
            (v # w /\ pw[v].pc = "synth" /\ pw[w].pc = "synth")
              => pw[v].task # pw[w].task)
    /\ [][\A w \in ProcessWorkers :
            processQueue = {} => ~Dequeues(w)]_vars

C3_Witness ==
    /\ pw["pw1"].pc = "synth" /\ pw["pw2"].pc = "synth"
    /\ returned[pw["pw1"].task] = 1 /\ returned[pw["pw2"].task] = 1
    /\ processQueue = {}

\* C4: delete_process_task returns True for an id only in a step that takes
\* the pending task of that id out of the Process Queue, and a task for which
\* it returned True is never one that get_process_task returned.
C4_CancelDequeueRace ==
    /\ [][\A id \in TaskIds :
            cancelTrue'[id] > cancelTrue[id] => Pending(id) /\ ~Pending(id)']_vars
    /\ [](\A id \in TaskIds : ~(Canceled(id) /\ returned[id] > 0))

\* a cancel request read the task in its ZRANGE and a worker dequeued it
\* before the ZREM
C4_Witness ==
    \E c \in Cancellers, w \in ProcessWorkers :
      cn[c].pc = "zrem" /\ pw[w].pc = "synth" /\ pw[w].task = cn[c].id

\* C5: the ZREM of a cancel request on a task still pending removes it and
\* the request returns True; a task so cancelled is never pending again,
\* never returned by get_process_task, never in the Upload Queue or at a
\* worker, and no callback is POSTed for it.
C5_CancelledTaskIsGone ==
    /\ [][\A c \in Cancellers, id \in TaskIds :
            (cn[c].pc = "zrem" /\ cn[c].id = id /\ cn'[c].pc = "idle"
               /\ Pending(id))
              => (~Pending(id)' /\ cancelTrue'[id] = cancelTrue[id] + 1)]_vars
    /\ [][\A id \in TaskIds : Canceled(id) => Canceled(id)']_vars
    /\ [](\A id \in TaskIds :
            Canceled(id) =>
              /\ ~Pending(id) /\ returned[id] = 0 /\ ~InFlight(id)
              /\ ~InUploadQueue(id)
              /\ posts[id] = {} /\ delivered[id] = {} /\ cbEnd[id] = "none")

\* one task was cancelled while the other went through to its callback
C5_Witness ==
    \E id, other \in TaskIds :
      /\ Canceled(id) /\ Admitted(other) /\ ~Canceled(other)
      /\ SuccessDelivered(other)

\* C6: a cancel request for an id that is not pending never returns True and
\* its ZREM changes neither queue; True is returned at most once per id.
C6_IdempotentCancel ==
    /\ [][\A id \in TaskIds :
            ~Pending(id) =>
              /\ cancelTrue'[id] = cancelTrue[id]
              /\ \A c \in Cancellers :
                   (cn[c].pc = "zrem" /\ cn[c].id = id /\ cn'[c] # cn[c])
                     => (processQueue' = processQueue
                           /\ uploadQueue' = uploadQueue
                           /\ cn'[c].pc = "idle")]_vars
    /\ [](\A id \in TaskIds : cancelTrue[id] <= 1)

\* the same id cancelled twice: one request got True, the other is about to
\* run its ZREM on the member that is gone, with a result in the Upload Queue
C6_Witness ==
    \E c \in Cancellers :
      cn[c].pc = "zrem" /\ cancelTrue[cn[c].id] = 1 /\ uploadQueue # <<>>

\* the outcomes a task is in
Outcomes(id) ==
    (IF Pending(id) THEN {"pending"} ELSE {})
      \cup (IF Canceled(id) THEN {"canceled"} ELSE {})
      \cup (IF InFlight(id) THEN {"in flight"} ELSE {})
      \cup (IF InUploadQueue(id) THEN {"upload queue"} ELSE {})
      \cup (IF SuccessDelivered(id) THEN {"success delivered"} ELSE {})
      \cup (IF FailureDelivered(id) THEN {"failure delivered"} ELSE {})
      \cup (IF Undelivered(id) THEN {"undelivered"} ELSE {})

C9_FailureCallbackRetried ==
    \A id \in TaskIds : cbEnd[id] # "transient"

\* C10: while send_callback is in its loop fewer than MAX_RETRIES POSTs were
\* made, so the next is at most the 10th, and none of them was answered
\* without error.
C10_BoundedAttempts ==
    \A u \in UploadWorkers :
      uw[u].pc = "cb" =>
        /\ uw[u].nposts < MAX_RETRIES
        /\ uw[u].status \notin delivered[uw[u].task.task_id]

\* one callback used up all its attempts and another was answered
C10_Witness ==
    \E id, other \in TaskIds :
      cbEnd[id] = "exhausted" /\ cbEnd[other] = "answered"

(* ------------------------ callback delivery --------------------------- *)
\* Uploader worker u is in send_callback, before a POST
InCallback(u) == uw[u].pc = "cb"
\* a step in which Uploader worker u makes a POST
Posts(u) == uw[u].pc = "cb" /\ uw'[u] # uw[u]
\* the response a scripted endpoint gives to the next POST of worker u
NextAnswer(u) ==
    CHOOSE r \in EndpointAnswers(uw[u].task.hook_url, uw[u].nposts) : TRUE

\* C11: a POST of send_callback that receives an HTTP 4xx status other than
\* 408 and 429 is the last of the call, which ends undelivered; against an
\* endpoint that always answers 404 the call never gets past its first POST.
C11_PermanentStopsRetries ==
    /\ [][\A u \in UploadWorkers :
            (/\ Posts(u)
             /\ NextAnswer(u).kind = "http"
             /\ NextAnswer(u).code \in 400..499
             /\ NextAnswer(u).code \notin {408, 429})
              => /\ uw'[u].pc = "idle"
                 /\ cbEnd'[uw[u].task.task_id] = "permanent"
                 /\ delivered'[uw[u].task.task_id] = {}]_vars
    /\ [](\A u \in UploadWorkers :
            (InCallback(u)
               /\ uw[u].task.hook_url = AlwaysHook([kind |-> "http", code |-> 404]))
              => uw[u].nposts = 0)

\* a success callback was given up on a permanent error
C11_Witness ==
    \E id \in TaskIds :
      cbEnd[id] = "permanent" /\ posts[id] = {"success"} /\ delivered[id] = {}

\* C12: after a POST that fails with 408, 429, a 5xx or a network error
\* send_callback goes on to another POST of the same callback if fewer than
\* MAX_RETRIES were made, and gives up otherwise; against an endpoint that
\* answers 500 to the first ScriptFails POSTs and 200 afterwards the callback
\* is delivered by POST number ScriptFails + 1.
C12_TransientRetried ==
    /\ [][\A u \in UploadWorkers :
            (/\ Posts(u)
             /\ \/ NextAnswer(u).kind = "neterr"
                \/ NextAnswer(u).code \in {408, 429}
                \/ NextAnswer(u).code \in 500..599)
              => IF uw[u].nposts + 1 < MAX_RETRIES
                 THEN /\ uw'[u].pc = "cb"
                      /\ uw'[u].nposts = uw[u].nposts + 1
                      /\ uw'[u].task = uw[u].task
                      /\ uw'[u].status = uw[u].status
                 ELSE /\ uw'[u].pc = "idle"
                      /\ cbEnd'[uw[u].task.task_id] = "exhausted"]_vars
    /\ [][\A u \in UploadWorkers :
            (/\ Posts(u)
             /\ uw[u].task.hook_url =
                  FailingHook([kind |-> "http", code |-> 500], OkResponse)
             /\ uw[u].nposts = ScriptFails)
              => /\ uw[u].status \in delivered'[uw[u].task.task_id]
                 /\ cbEnd'[uw[u].task.task_id] = "answered"
                 /\ uw'[u].pc = "idle"]_vars
    /\ [](\A u \in UploadWorkers :
            (InCallback(u)
               /\ uw[u].task.hook_url =
                    FailingHook([kind |-> "http", code |-> 500], OkResponse))
              => uw[u].nposts <= ScriptFails)

\* the endpoint answered 500 to ScriptFails POSTs and the next one is due
C12_Witness ==
    \E u \in UploadWorkers :
      /\ InCallback(u)
      /\ uw[u].task.hook_url =
           FailingHook([kind |-> "http", code |-> 500], OkResponse)
      /\ uw[u].nposts = ScriptFails

\* C13: send_callback waits nothing before its first POST; before POST
\* number n + 1 (n = 1..9) it waits min(1 * 2^n + jitter, 60) seconds with
\* 0 <= jitter < 1; the waits of one call never decrease and none is above
\* 60 seconds. (Waits are in units of 1 / JitterSteps s.)
C13_BackoffSchedule ==
    /\ [](\A u \in UploadWorkers :
            InCallback(u) =>
              /\ uw[u].nposts = 0 => uw[u].wait = 0
              /\ uw[u].nposts >= 1 =>
                   /\ uw[u].nposts <= 9
                   /\ \E j \in 0..(JitterSteps - 1) :
                        LET d == 1 * (2 ^ uw[u].nposts) * JitterSteps + j
                        IN  uw[u].wait = IF d < 60 * JitterSteps THEN d
                                         ELSE 60 * JitterSteps
              /\ uw[u].wait <= 60 * JitterSteps)
    /\ [][\A u \in UploadWorkers :
            (InCallback(u) /\ uw'[u].pc = "cb"
               /\ uw'[u].task = uw[u].task /\ uw'[u].status = uw[u].status)
              => uw'[u].wait >= uw[u].wait]_vars

\* the last POST of a call is due after a wait at the upper limit
C13_Witness ==
    \E u \in UploadWorkers :
      /\ InCallback(u)
      /\ uw[u].nposts = MAX_RETRIES - 1
      /\ uw[u].wait = MaxSleep * JitterSteps

(* ---------------------------- submissions ----------------------------- *)
\* params is in the body and is not a JSON object
MalformedParams(data) == data.params.present /\ ~data.params.value.dict
\* the language the body asks for, "en" when it names none
RequestedLanguage(data) ==
    IF data.params.present /\ data.params.value.language.present
    THEN data.params.value.language.value
    ELSE "en"
\* the priority in the body is outside 1..5
PriorityOutOfRange(data) ==
    data.priority.present /\ data.priority.value \notin 1..5
\* text, hook_url or spk_audio_prompt is empty or missing, the priority is
\* out of range or the language is not supported
InvalidField(data) ==
    \/ ~data.text.present \/ data.text.value = ""
    \/ ~data.hook_url.present \/ data.hook_url.value = NoHook
    \/ ~data.spk_audio_prompt.present \/ data.spk_audio_prompt.value = ""
    \/ PriorityOutOfRange(data)
    \/ RequestedLanguage(data) \notin SupportedLanguages
\* an id that was handed out: its task is pending, was cancelled or was
\* returned to a worker
Used(id) == Pending(id) \/ Canceled(id) \/ returned[id] > 0

C15_InvalidSubmission400 ==
    [][\A data \in Requests :
         ((InvalidField(data) \/ MalformedParams(data)) /\ CloneSingle(data))
           => (reply'.code = 400
                 /\ processQueue' = processQueue
                 /\ uploadQueue' = uploadQueue)]_vars

\* C16: a submission with nothing wrong adds exactly one task to the Process
\* Queue, under an id no task had before, and is answered 201 "queued" with
\* that id; no other step adds a member to the Process Queue.
C16_ValidSubmission ==
    [][LET Admits ==
             \E e \in processQueue' :
               /\ e \notin processQueue
               /\ processQueue' = processQueue \cup {e}
               /\ ~Used(e.task.task_id)
               /\ ~InFlight(e.task.task_id)
               /\ ~InUploadQueue(e.task.task_id)
               /\ reply' = [code |-> 201, status |-> "queued",
                            task_uuid |-> e.task.task_id, error |-> ""]
       IN  /\ \A data \in Requests :
                (~MalformedParams(data) /\ ~InvalidField(data)
                   /\ CloneSingle(data)) => Admits
           /\ ~(processQueue' \subseteq processQueue) => Admits]_vars

\* the second submission was answered 201 and its task is pending
C16_Witness ==
    /\ reply.code = 201
    /\ reply.task_uuid > 1
    /\ Pending(reply.task_uuid)

\* C17: the id returned by an admission was never handed out before, and no
\* id is at two places of the pipeline or twice in a queue.
C17_IdsNeverReused ==
    /\ [][nextId' # nextId =>
            (reply'.code = 201 /\ ~Used(reply'.task_uuid)
               /\ \E e \in processQueue' :
                    e.task.task_id = reply'.task_uuid)]_vars
    /\ [](\A e, f \in processQueue :
            e.task.task_id = f.task.task_id => e = f)
    /\ [](\A i, j \in 1..Len(uploadQueue) :
            uploadQueue[i].task_id = uploadQueue[j].task_id => i = j)
    /\ [](\A id \in TaskIds :
            Cardinality({x \in {"pending", "worker", "upload queue", "uploader"} :
                           \/ x = "pending" /\ Pending(id)
                           \/ x = "worker" /\ AtProcessWorker(id)
                           \/ x = "upload queue" /\ InUploadQueue(id)
                           \/ x = "uploader" /\ AtUploadWorker(id)}) <= 1)

\* two tasks admitted with the same payload at the same time are pending
C17_Witness ==
    \E e, f \in processQueue :
      /\ e # f
      /\ e.task.data = f.task.data
      /\ e.task.priority = f.task.priority
      /\ e.task.created_at = f.task.created_at


(* ------------------------- processing worker -------------------------- *)
\* a step in which worker w finishes its task with its output file written
Succeeds(w) ==
    /\ pw[w].pc = "synth" /\ pw'[w].pc = "idle"
    /\ OutputPath(pw[w].task) \in files'

\* a step in which worker w finishes its task without an output file
Fails(w) ==
    /\ pw[w].pc = "synth" /\ pw'[w].pc = "idle"
    /\ OutputPath(pw[w].task) \notin files'

\* the callback bodies a step adds for task id
NewBodies(id) == bodies'[id] \ bodies[id]

\* C18: a worker step that ends a task in success adds exactly one entry to
\* the Upload Queue, made of the task's id, the hook_url of the task as it
\* was dequeued, the one output path and the cleanup configuration, leaves
\* the other entries as they were and sends no callback; a task waiting in
\* the Upload Queue has had no callback.
C18_SuccessPushesResult ==
    /\ [][\A w \in ProcessWorkers :
            Dequeues(w) => pw'[w].hook = Dequeued(w).task.data.hook_url]_vars
    /\ [][\A w \in ProcessWorkers :
            Succeeds(w) =>
              /\ Len(uploadQueue') = Len(uploadQueue) + 1
              /\ \E i \in 1..Len(uploadQueue') :
                   /\ uploadQueue'[i] =
                        [task_id |-> pw[w].task, hook_url |-> pw[w].hook,
                         output_paths |-> <<OutputPath(pw[w].task)>>,
                         cleanup |-> cleanupCfg]
                   /\ \A j \in 1..Len(uploadQueue) :
                        uploadQueue'[IF j < i THEN j ELSE j + 1] = uploadQueue[j]
              /\ ~InUploadQueue(pw[w].task)
              /\ posts' = posts /\ bodies' = bodies
              /\ delivered' = delivered]_vars
    /\ [](\A id \in TaskIds : InUploadQueue(id) => posts[id] = {})

\* the result of a task submitted with a scripted hook_url waits in the
\* Upload Queue
C18_Witness ==
    \E i \in 1..Len(uploadQueue) :
      /\ uploadQueue[i].hook_url =
           FailingHook([kind |-> "http", code |-> 500], OkResponse)
      /\ uploadQueue[i].output_paths = <<OutputPath(uploadQueue[i].task_id)>>
      /\ uploadQueue[i].output_paths[1] \in files
      /\ returned[uploadQueue[i].task_id] = 1
      /\ posts[uploadQueue[i].task_id] = {}

\* C19: a worker step that ends a task in a synthesis failure POSTs one
\* failure callback for the task, leaves both queues as they were and leaves
\* the worker free for the next task; no task that left the Process Queue
\* is pending again, and no task is dequeued twice.
C19_FailureCallbackDirect ==
    /\ [][\A w \in ProcessWorkers :
            Fails(w) =>
              /\ posts[pw[w].task] = {}
              /\ posts'[pw[w].task] = {"failed"}
              /\ \E b \in NewBodies(pw[w].task) : b.status = "failed"
              /\ uploadQueue' = uploadQueue
              /\ processQueue' = processQueue
              /\ ~InUploadQueue(pw[w].task)
              /\ pw'[w] = IdlePw]_vars
    /\ [][\A id \in TaskIds :
            (Admitted(id) /\ ~Pending(id))
              => ~(\E e \in processQueue' : e.task.task_id = id)]_vars
    /\ [](\A id \in TaskIds : returned[id] <= 1)

\* after an "audio too quiet" failure of one task the worker is at work on
\* the next one
C19_Witness ==
    \E id \in TaskIds, w \in ProcessWorkers :
      /\ \E b \in bodies[id] : b.error_code = "AUDIO_TOO_QUIET"
      /\ posts[id] = {"failed"}
      /\ ~Pending(id) /\ ~InUploadQueue(id) /\ ~InFlight(id)
      /\ pw[w].pc = "synth" /\ pw[w].task # id

\* C20: the callback body of an "audio too quiet" failure has status
\* "failed", the key error_code with the failure's code and no key s3_url;
\* the body of any other synthesis failure has status "failed", the key
\* error_message and no key error_code (nor s3_url).
C20_FailureBodies ==
    [][\A w \in ProcessWorkers, resp \in ScriptResponses :
         /\ SynthFails(w, TRUE, resp) =>
              /\ NewBodies(pw[w].task) # {}
              /\ \A b \in NewBodies(pw[w].task) :
                   /\ b.status = "failed"
                   /\ "error_code" \in b.fields
                   /\ b.error_code = "AUDIO_TOO_QUIET"
                   /\ "s3_url" \notin b.fields
         /\ SynthFails(w, FALSE, resp) =>
              /\ NewBodies(pw[w].task) # {}
              /\ \A b \in NewBodies(pw[w].task) :
                   /\ b.status = "failed"
                   /\ "error_message" \in b.fields
                   /\ "error_code" \notin b.fields
                   /\ "s3_url" \notin b.fields]_vars

\* one task failed as too quiet and its callback was answered; another
\* failed otherwise (its file was never written, and nothing cleans up)
C20_Witness ==
    \E id, other \in TaskIds :
      /\ \E b \in bodies[id] : "error_code" \in b.fields
      /\ delivered[id] = {"failed"}
      /\ ~cleanupCfg
      /\ posts[other] = {"failed"}
      /\ OutputPath(other) \notin files
      /\ \A b \in bodies[other] : "error_code" \notin b.fields

UploadEnds(u) == uw[u].pc = "upload" /\ uw'[u] # uw[u]

\* C22: the step that ends an upload, successful or failed, removes the
\* Result's output file when the Result asks for cleanup and removes nothing
\* when it does not, and sends no callback yet; the callback is entered next,
\* so at every POST of a Result with cleanup the file is gone; with the
\* policy off no file ever leaves the disk.
C22_CleanupBeforeCallback ==
    /\ [][\A u \in UploadWorkers :
            UploadEnds(u) =>
              /\ files' = IF uw[u].task.cleanup
                          THEN files \ {uw[u].task.output_paths[1]}
                          ELSE files
              /\ posts[uw[u].task.task_id] = {}
              /\ posts' = posts /\ bodies' = bodies
              /\ uw'[u].pc = "cb" /\ uw'[u].nposts = 0
              /\ uw'[u].status \in {"success", "failed"}]_vars
    /\ [](\A u \in UploadWorkers :
            (InCallback(u) /\ uw[u].task.cleanup)
              => uw[u].task.output_paths[1] \notin files)
    /\ [][~cleanupCfg => files \subseteq files']_vars

\* the upload failed, the file was removed all the same, and the failure
\* callback is about to be POSTed
C22_Witness ==
    \E u \in UploadWorkers :
      /\ InCallback(u) /\ uw[u].status = "failed" /\ uw[u].nposts = 0
      /\ uw[u].task.cleanup
      /\ posts[uw[u].task.task_id] = {}
      /\ uw[u].task.output_paths[1] \notin files

\* C23: an upload that fails is followed by the callback with status
\* "failed": every POST of it carries error_message and no s3_url, a POST
\* that fails transiently is followed by another while attempts are left, a
\* POST that is answered delivers it, and a task for which a failure
\* callback was POSTed never has a success callback POSTed.
C23_UploadFailureCallback ==
    /\ [][\A u \in UploadWorkers :
            (UploadEnds(u) /\ uw'[u].status = "failed")
              => uw'[u].pc = "cb" /\ uw'[u].nposts = 0]_vars
    /\ [][\A u \in UploadWorkers :
            (Posts(u) /\ uw[u].status = "failed") =>
              LET id == uw[u].task.task_id
                  r == NextAnswer(u)
              IN  /\ posts'[id] = {"failed"}
                  /\ bodies'[id] # {}
                  /\ \A b \in bodies'[id] :
                       /\ b.status = "failed"
                       /\ "error_message" \in b.fields
                       /\ "s3_url" \notin b.fields
                  /\ (r.kind = "http" /\ r.code \in 200..399)
                       => delivered'[id] = {"failed"} /\ uw'[u].pc = "idle"
                  /\ ((r.kind = "neterr" \/ r.code \in {408, 429}
                         \/ r.code \in 500..599)
                        /\ uw[u].nposts + 1 < MAX_RETRIES)
                       => /\ uw'[u].pc = "cb"
                          /\ uw'[u].status = "failed"
                          /\ uw'[u].task = uw[u].task
                          /\ uw'[u].nposts = uw[u].nposts + 1]_vars
    /\ [](\A id \in TaskIds : "failed" \in posts[id] => "success" \notin posts[id])

\* the failure callback of a failed upload got 500 ScriptFails times and is
\* about to be POSTed again
C23_Witness ==
    \E u \in UploadWorkers :
      /\ InCallback(u) /\ uw[u].status = "failed"
      /\ uw[u].nposts = ScriptFails
      /\ uw[u].task.hook_url =
           FailingHook([kind |-> "http", code |-> 500], OkResponse)
      /\ posts[uw[u].task.task_id] = {"failed"}

\* a step in which get_upload_task returns a Result to worker u
Pops(u) == uw[u].pc = "idle" /\ uw'[u].pc = "upload"
\* a step in which push_upload_task adds a Result
Pushes == Len(uploadQueue') > Len(uploadQueue)

\* C24: get_upload_task returns the Result that was pushed first among those
\* in the Upload Queue, so Results leave in the order they entered, whatever
\* the priorities of their tasks; the queue holds exactly the Results pushed
\* and not yet returned.
C24_UploadQueueFifo ==
    /\ [][\A u \in UploadWorkers :
            Pops(u) =>
              /\ inserted # <<>>
              /\ uw'[u].task.task_id = Head(inserted)
              /\ inserted' = Tail(inserted)]_vars
    /\ [][Pushes =>
            \E id \in TaskIds :
              /\ ~InUploadQueue(id)
              /\ inserted' = Append(inserted, id)]_vars
    /\ [](/\ Len(inserted) = Len(uploadQueue)
          /\ \A id \in TaskIds :
               InUploadQueue(id) <=> \E i \in 1..Len(inserted) : inserted[i] = id)

\* two Results wait for the idle worker, the one of the task admitted later
\* having been pushed first
C24_Witness ==
    /\ Len(inserted) >= 2
    /\ inserted[1] > inserted[2]
    /\ \A u \in UploadWorkers : uw[u].pc = "idle"

(* ------------------------------ cancel -------------------------------- *)
\* C25: a cancel request for any task id is answered 200 with status
\* "canceled" and that id, whether its delete_process_task found no member
\* (the id is unknown, or the task was dequeued or cancelled before), removed
\* the pending task, or lost the task to a worker between its ZRANGE and its
\* ZREM.
C25_CancelAlwaysCanceled ==
    /\ [][\A c \in Cancellers, id \in TaskIds :
            (CancelTaskScan(c, id) /\ cn'[c].pc = "idle")
              => /\ ~Pending(id)
                 /\ reply' = [code |-> 200, status |-> "canceled",
                              task_uuid |-> id, error |-> ""]]_vars
    /\ [][\A c \in Cancellers :
            (cn[c].pc = "zrem" /\ cn'[c].pc = "idle")
              => reply' = [code |-> 200, status |-> "canceled",
                           task_uuid |-> cn[c].id, error |-> ""]]_vars
    /\ [](reply.status = "canceled" => reply.code = 200 /\ reply.error = "")

\* the last cancel request was for a task a worker had dequeued, after
\* another request had removed a pending task
C25_Witness ==
    /\ reply.status = "canceled"
    /\ reply.task_uuid \in TaskIds
    /\ returned[reply.task_uuid] = 1
    /\ \E id \in TaskIds : Canceled(id)

(* --------------------------- process queue ---------------------------- *)
\* C26: an idle worker leaves its loop head only by a get_process_task that
\* finds the Process Queue non-empty; the task it then holds is that of a
\* member whose score no other member exceeded, and the queue afterwards is
\* the queue before without that one member, every other member keeping its
\* score. With the queue empty the worker stays as it is and so does the
\* queue.
C26_DequeueMaxScore ==
    /\ [][\A w \in ProcessWorkers :
            (pw[w].pc = "idle" /\ pw'[w] # pw[w]) =>
              /\ processQueue # {}
              /\ pw'[w].pc = "synth"
              /\ \E e \in processQueue :
                   /\ e.task.task_id = pw'[w].task
                   /\ \A f \in processQueue : f.score <= e.score
                   /\ processQueue' = processQueue \ {e}
                   /\ Cardinality(processQueue') = Cardinality(processQueue) - 1]_vars
    /\ [][\A w \in ProcessWorkers :
            (pw[w].pc = "idle" /\ processQueue = {}) => pw'[w] = pw[w]]_vars

\* a worker holds the task admitted later while one admitted earlier, at an
\* earlier time, is still pending
C26_Witness ==
    \E w \in ProcessWorkers, e \in processQueue :
      /\ pw[w].pc = "synth"
      /\ e.task.task_id < pw[w].task
      /\ e.task.created_at < clock

\* C27: the member add_task puts into the Process Queue has the score
\* (5 + 1 - priority) * t, t being the time of the call, for every priority
\* 1..5 and every t; the score of a pending task stays what it was.
C27_ScoreFormula ==
    /\ [][\A e \in processQueue' \ processQueue :
            /\ e.task.priority \in 1..5
            /\ e.score = (5 + 1 - e.task.priority) * clock
            /\ e.score = (6 - e.task.priority) * e.task.created_at]_vars
    /\ [](\A e \in processQueue :
            e.score = (6 - e.task.priority) * e.task.created_at)

\* tasks of priority 1 and of priority 5 admitted at different times are
\* pending, the first with five times its timestamp for score
C27_Witness ==
    \E e, f \in processQueue :
      /\ e.task.priority = 1 /\ f.task.priority = 5
      /\ e.task.created_at # f.task.created_at
      /\ e.score = 5 * e.task.created_at /\ f.score = f.task.created_at

\* C28: a task that get_process_task returned is never a member of the
\* Process Queue again, whatever its worker did next (synthesis done or
\* failed, an exception caught by the loop, the loop ended by should_stop):
\* the only step that adds a member is the admission of a new task_uuid, and
\* no task is returned twice.
C28_NeverRequeued ==
    /\ [](\A id \in TaskIds : returned[id] > 0 => ~Pending(id))
    /\ [](\A id \in TaskIds : returned[id] <= 1)
    /\ [][\A id \in TaskIds :
            ~Pending(id) /\ Pending(id)' =>
              id = nextId /\ nextId' = nextId + 1 /\ returned[id] = 0]_vars

\* a task was taken, dropped by an exception that reached the loop, and its
\* worker has left the loop after the signal; another task is still pending
C28_Witness ==
    \E id \in TaskIds :
      /\ returned[id] = 1 /\ ~Pending(id)
      /\ ~InFlight(id) /\ ~InUploadQueue(id) /\ posts[id] = {}
      /\ pw[LoopWorker].pc = "stopped"
      /\ processQueue # {}

\* C29: cancelling a task that get_process_task has returned changes nothing
\* about it: a delete_process_task whose scan finds a member to remove began
\* before the dequeue (one that begins after it finds none and returns
\* False), no delete_process_task returns True for the
\* task (also one whose scan came before the dequeue), the steps of a cancel
\* leave the workers, the Upload Queue, the files and the callbacks as they
\* are, and the task goes on to have its callback POSTed.
C29_CancelAfterDequeue ==
    /\ [][\A c \in Cancellers :
            cn[c].pc = "idle" /\ cn'[c].pc = "zrem" =>
              returned[cn'[c].id] = 0]_vars
    /\ [][\A id \in TaskIds :
            returned[id] > 0 => cancelTrue'[id] = cancelTrue[id]]_vars
    /\ [][cn' # cn =>
            UNCHANGED <<pw, uw, uploadQueue, inserted, files, returned,
                        posts, bodies, delivered, cbEnd>>]_vars
    /\ \A id \in TaskIds : returned[id] > 0 ~> posts[id] # {}

\* a cancel found the task pending, a worker took it before the ZREM, and
\* with the cancel still under way its success callback was delivered
C29_Witness ==
    \E id \in TaskIds, c \in Cancellers :
      /\ cn[c].pc = "zrem" /\ cn[c].id = id
      /\ returned[id] = 1 /\ cancelTrue[id] = 0
      /\ SuccessDelivered(id)

\* C30: no error ends a worker loop. A Voice Processor worker or the Uploader
\* leaves its loop only from the loop head and only with its should_stop
\* set; a worker that paused after an exception next stands at the loop head
\* with nothing in hand, and every pause does end there.
C30_LoopsSurviveErrors ==
    /\ [][\A w \in ProcessWorkers :
            pw[w].pc # "stopped" /\ pw'[w].pc = "stopped" =>
              pw[w].pc = "idle" /\ shouldStop[w]]_vars
    /\ [][\A u \in UploadWorkers :
            uw[u].pc # "stopped" /\ uw'[u].pc = "stopped" =>
              uw[u].pc = "idle" /\ shouldStop[u]]_vars
    /\ [][\A w \in ProcessWorkers :
            pw[w].pc = "paused" /\ pw'[w] # pw[w] => pw'[w] = IdlePw]_vars
    /\ [][\A u \in UploadWorkers :
            uw[u].pc = "paused" /\ uw'[u] # uw[u] => uw'[u] = IdleUw]_vars
    /\ \A w \in ProcessWorkers : pw[w].pc = "paused" ~> pw[w].pc = "idle"
    /\ \A u \in UploadWorkers : uw[u].pc = "paused" ~> uw[u].pc = "idle"

\* a task was dropped by an exception that reached a loop, the Voice
\* Processor worker is at work on the next task and the Uploader sleeps
\* after an exception of its own; no signal has come
C30_Witness ==
    \E id, other \in TaskIds, u \in UploadWorkers :
      /\ returned[id] = 1 /\ posts[id] = {}
      /\ ~InFlight(id) /\ ~InUploadQueue(id)
      /\ pw[LoopWorker].pc = "synth" /\ pw[LoopWorker].task = other
      /\ uw[u].pc = "paused"
      /\ ~shouldStop[LoopWorker] /\ ~shouldStop[u]

\* C31: when the handling of a Result ends with its upload done, the object
\* of every path in its output_paths is in the bucket, and every file that
\* step removed from the disk has its object there.
C31_EveryPathUploaded ==
    [][\A u \in UploadWorkers :
         UploadEnds(u) /\ uw'[u].status = "success" =>
           /\ \A i \in 1..Len(uw[u].task.output_paths) :
                ObjectKey(uw[u].task.output_paths[i]) \in bucket'
           /\ \A path \in files \ files' : ObjectKey(path) \in bucket']_vars

\* the Uploader is about to send the success callback of a Result whose
\* file is in the bucket and, by the cleanup, no longer on the disk
C31_Witness ==
    \E u \in UploadWorkers :
      /\ uw[u].pc = "cb" /\ uw[u].status = "success" /\ uw[u].nposts = 0
      /\ cleanupCfg
      /\ Len(uw[u].task.output_paths) = 1
      /\ ObjectKey(uw[u].task.output_paths[1]) \in bucket
      /\ uw[u].task.output_paths[1] \notin files

\* the Uploader workers that have the Result of a task in hand
HeldBy(id) == {u \in AllUploadWorkers : uw[u].task.task_id = id}

\* C32: with two Uploader workers on the one Upload Queue a Result is never
\* in two hands or both queued and in hand; what leaves the queue is the
\* tail element and it goes to the one idle worker whose BRPOP returned it; a
\* worker gets a Result in no other way; a Result is pushed only by the
\* Voice Processor worker that has the task, before anything was done with
\* it; and every callback of a task is POSTed while one worker holds it.
C32_EachResultOneWorker ==
    /\ [](\A id \in TaskIds :
            /\ Cardinality(HeldBy(id)) <= 1
            /\ InUploadQueue(id) =>
                 /\ HeldBy(id) = {} /\ posts[id] = {}
                 /\ Cardinality({i \in 1..Len(uploadQueue) :
                                   uploadQueue[i].task_id = id}) = 1)
    /\ [][Len(uploadQueue') < Len(uploadQueue) =>
            /\ uploadQueue' = RPopRest(uploadQueue)
            /\ \E u \in AllUploadWorkers :
                 /\ uw[u].pc = "idle" /\ uw'[u].task = RPopItem(uploadQueue)
                 /\ \A other \in AllUploadWorkers \ {u} :
                      uw'[other] = uw[other]]_vars
    /\ [][\A id \in TaskIds :
            HeldBy(id)' \ HeldBy(id) # {} =>
              InUploadQueue(id) /\ ~InUploadQueue(id)']_vars
    /\ [][\A id \in TaskIds :
            ~InUploadQueue(id) /\ InUploadQueue(id)' =>
              HeldBy(id) = {} /\ posts[id] = {} /\ AtProcessWorker(id)]_vars
    /\ [][\A id \in TaskIds :
            posts'[id] # posts[id] => Cardinality(HeldBy(id)) = 1]_vars

\* both Uploader workers are in the callback loop at once, each with the
\* Result of another task and each with a POST behind it; the worker started
\* second has the Result pushed first
C32_Witness ==
    /\ \A u \in AllUploadWorkers : uw[u].pc = "cb" /\ uw[u].nposts > 0
    /\ \E u \in UploadWorkers, x \in ExtraUploadWorkers :
         /\ uw[x].task.task_id < uw[u].task.task_id
         /\ posts[uw[x].task.task_id] # {} /\ posts[uw[u].task.task_id] # {}

\* A stream of submissions that never ends. The ids of the model are names
\* for uuid4 values: once the task admitted last has left the pipeline, its
\* name and the records kept under it are free for the next uuid4.
Recycle ==
    /\ nextId > 1
    /\ LET id == nextId - 1
       IN  /\ returned[id] > 0
           /\ ~Pending(id) /\ ~InFlight(id) /\ ~InUploadQueue(id)
           /\ nextId' = id
           /\ returned' = [returned EXCEPT ![id] = 0]
           /\ cancelTrue' = [cancelTrue EXCEPT ![id] = 0]
           /\ posts' = [posts EXCEPT ![id] = {}]
           /\ bodies' = [bodies EXCEPT ![id] = {}]
           /\ delivered' = [delivered EXCEPT ![id] = {}]
           /\ cbEnd' = [cbEnd EXCEPT ![id] = "none"]
    /\ UNCHANGED <<clock, processQueue, uploadQueue, inserted, pw, uw, cn,
                   files, cleanupCfg, publicUrl, bucket, shouldStop, reply>>

\* the Process Queue under a stream of submissions of the lowest and the
\* highest priority value; both Voice Processor workers keep dequeuing and
\* finishing, the Uploader keeps delivering, the endpoint answers 200
StreamNext ==
    \/ nextId <= MaxTasks
         /\ \E p \in {MinPriority, MaxPriority} :
               CloneSingle(Request(AnyHook, Some(p)))
    \/ Recycle
    \/ \E w \in ProcessWorkers : GetProcessTask(w)
    \/ \E w \in ProcessWorkers : SynthOk(w)
    \/ \E w \in ProcessWorkers : SynthFails(w, FALSE, OkResponse)
    \/ \E u \in UploadWorkers : GetUploadTask(u)
    \/ \E u \in UploadWorkers : UploadFile(u, TRUE)
    \/ \E u \in UploadWorkers : Post(u, OkResponse, NoJitter)

StreamSpec ==
    /\ QueueInit
    /\ [][StreamNext]_vars
    /\ \A w \in ProcessWorkers : WF_vars(WorkerStep(w))
    /\ \A u \in UploadWorkers : WF_vars(UploaderStep(u))

\* C33: every pending task is in the end returned by get_process_task or
\* cancelled, while the workers keep dequeuing and submissions keep coming.
C33_NoStarvation ==
    \A id \in TaskIds : Pending(id) ~> (returned[id] > 0 \/ Canceled(id))

\* C34: a step of delete_process_task takes at most one member out of the
\* Process Queue, that member's task_id is the id the request is for, every
\* other member stays with its score, nothing is added, and the Upload Queue
\* is as before; there is never more than one member per task_id.
C34_DeleteFrame ==
    /\ [][cn' # cn =>
            /\ uploadQueue' = uploadQueue /\ inserted' = inserted
            /\ processQueue' \subseteq processQueue
            /\ Cardinality(processQueue \ processQueue') <= 1
            /\ \A e \in processQueue \ processQueue' :
                 \E c \in Cancellers :
                   /\ cn[c].pc = "zrem" /\ cn'[c] # cn[c]
                   /\ cn[c].id = e.task.task_id]_vars
    /\ [](\A id \in TaskIds :
            Cardinality({e \in processQueue : e.task.task_id = id}) <= 1)

\* a cancel request has removed one task and returned while the other task,
\* of another priority, is still pending with the score it was added with
C34_Witness ==
    \E id, other \in TaskIds :
      /\ Canceled(id) /\ ~Pending(id)
      /\ \A c \in Cancellers : cn[c].pc = "idle"
      /\ \E e \in processQueue :
           /\ e.task.task_id = other /\ e.task.priority = MaxPriority
           /\ e.score = CalculateScore(MaxPriority, e.task.created_at)

\* f[1] + ... + f[n]
RECURSIVE Total(_, _)
Total(f, n) == IF n = 0 THEN 0 ELSE f[n] + Total(f, n - 1)

\* C35: every admission adds exactly one member to the Process Queue and
\* leaves every member it had with its score, so the size of the queue is
\* the number of admissions less the tasks get_process_task returned and
\* the cancel requests that returned True.
C35_QueueSizeAccounting ==
    /\ [][nextId' # nextId =>
            /\ processQueue \subseteq processQueue'
            /\ Cardinality(processQueue') = Cardinality(processQueue) + 1]_vars
    /\ [](Cardinality(processQueue) =
            (nextId - 1) - Total(returned, MaxTasks)
                         - Total(cancelTrue, MaxTasks))

\* every id was handed out, one task was cancelled, none dequeued, and the
\* rest are pending
C35_Witness ==
    /\ nextId > MaxTasks
    /\ Total(cancelTrue, MaxTasks) = 1 /\ Total(returned, MaxTasks) = 0
    /\ Cardinality(processQueue) = MaxTasks - 1

\* C36: send_callback returns to process_upload_task in one way whatever
\* became of the delivery: after each POST the Uploader either goes on with
\* the same callback of the same Result or is back in its loop with nothing
\* in hand; once a callback was given up on a permanent error or after its
\* last attempt nothing more is POSTed for the task; all callbacks POSTed
\* for a task carry one status.
C36_NoFallbackCallback ==
    /\ [][\A u \in UploadWorkers :
            uw[u].pc = "cb" /\ uw'[u] # uw[u] =>
              \/ uw'[u] = IdleUw
              \/ /\ uw'[u].pc = "cb"
                 /\ uw'[u].task = uw[u].task
                 /\ uw'[u].status = uw[u].status]_vars
    /\ [][\A id \in TaskIds :
            cbEnd[id] \in {"permanent", "exhausted"} =>
              /\ posts'[id] = posts[id] /\ bodies'[id] = bodies[id]
              /\ delivered'[id] = delivered[id]
              /\ cbEnd'[id] = cbEnd[id]]_vars
    /\ [](\A id \in TaskIds :
            /\ Cardinality(posts[id]) <= 1
            /\ \A b \in bodies[id] : b.status \in posts[id])

\* one success callback was given up after its last attempt, another on a
\* permanent error; neither was delivered, no failure callback was POSTed
\* and the Uploader is back in its loop
C36_Witness ==
    /\ \A u \in UploadWorkers : uw[u] = IdleUw
    /\ \E id, other \in TaskIds :
         /\ cbEnd[id] = "exhausted" /\ cbEnd[other] = "permanent"
         /\ posts[id] = {"success"} /\ posts[other] = {"success"}
         /\ delivered[id] = {} /\ delivered[other] = {}

\* C37: the Uploader takes a Result from the Upload Queue only with nothing
\* in hand, nothing leaves the queue while it has one, and it lets go of a
\* Result only after a POST that ended the callback: answered, refused with
\* a permanent error, or the last of its attempts. A success callback is
\* POSTed and delivered only while the Uploader holds that task's Result.
C37_HeadOfLineBlocking ==
    /\ [][\A u \in UploadWorkers :
            Pops(u) => uw[u] = IdleUw /\ uw'[u].pc = "upload"]_vars
    /\ [][(\E u \in UploadWorkers : uw[u].pc # "idle") =>
            Len(uploadQueue') >= Len(uploadQueue)]_vars
    /\ [][\A u \in UploadWorkers :
            uw[u].pc # "idle" /\ uw'[u].task # uw[u].task =>
              /\ uw[u].pc = "cb" /\ uw'[u] = IdleUw
              /\ cbEnd'[uw[u].task.task_id]
                   \in {"answered", "permanent", "exhausted"}]_vars
    /\ [][\A id \in TaskIds :
            ("success" \in (posts'[id] \ posts[id])
               \/ "success" \in (delivered'[id] \ delivered[id]))
              => \E u \in UploadWorkers :
                   uw[u].pc = "cb" /\ uw[u].task.task_id = id]_vars

\* the Uploader waits for the last attempt of a callback while the Result of
\* another task sits in the Upload Queue
C37_Witness ==
    \E u \in UploadWorkers :
      /\ uw[u].pc = "cb" /\ uw[u].nposts = MAX_RETRIES - 1
      /\ uw[u].wait > 0
      /\ uploadQueue # <<>>
      /\ uploadQueue[1].task_id # uw[u].task.task_id

\* C38: once should_stop is set a worker starts no fetch (the one fetch that
\* may still return an item is the one under way when the signal came); the
\* task a Voice Processor worker has in hand ends pushed to the Upload Queue
\* or with its failure callback POSTed, the Result the Uploader has in hand
\* ends with a callback that was delivered, refused for good or out of
\* attempts; a worker leaves its loop with nothing in hand and its
\* should_stop set, and after the signal it does leave.
C38_GracefulShutdown ==
    /\ [][\A w \in ProcessWorkers :
            shouldStop[w] /\ pw[w].pc = "idle" =>
              pw'[w].pc \in {"idle", "stopped"}]_vars
    /\ [][\A u \in UploadWorkers :
            shouldStop[u] /\ uw[u].pc = "idle" =>
              uw'[u].pc \in {"idle", "stopped"}]_vars
    /\ [][\A w \in ProcessWorkers, id \in TaskIds :
            pw[w].pc = "synth" /\ pw[w].task = id /\ pw'[w] # pw[w] =>
              /\ pw'[w] = IdlePw
              /\ InUploadQueue(id)' \/ posts'[id] # {}]_vars
    /\ [][\A u \in UploadWorkers :
            uw[u].pc \in {"upload", "cb"} /\ uw'[u].task # uw[u].task =>
              /\ uw'[u] = IdleUw
              /\ cbEnd'[uw[u].task.task_id]
                   \in {"answered", "permanent", "exhausted"}]_vars
    /\ [][\A w \in ProcessWorkers :
            pw[w].pc # "stopped" /\ pw'[w].pc = "stopped" =>
              pw[w] = IdlePw /\ shouldStop[w]]_vars
    /\ [][\A u \in UploadWorkers :
            uw[u].pc # "stopped" /\ uw'[u].pc = "stopped" =>
              uw[u] = IdleUw /\ shouldStop[u]]_vars
    /\ shouldStop[LoopWorker] ~> pw[LoopWorker].pc = "stopped"
    /\ \A u \in UploadWorkers : shouldStop[u] ~> uw[u].pc = "stopped"

\* both workers have left their loops; the task that was fetched went all
\* the way to a delivered success callback, the other is still pending
C38_Witness ==
    /\ pw[LoopWorker].pc = "stopped"
    /\ \A u \in UploadWorkers : uw[u].pc = "stopped"
    /\ uploadQueue = <<>>
    /\ \E id, other \in TaskIds :
         returned[id] = 1 /\ SuccessDelivered(id) /\ Pending(other)

\* C39: when the push of a Result raises, that step POSTs a failure callback
\* with an error_message and no s3_url for the task, leaves its output file off the disk
\* and nothing of it in the Upload Queue, and frees the worker; a Result enters the
\* queue only from a worker at its push and before any callback of the task,
\* and no task ever has both a failure and a success callback, so no
\* success callback follows.
C39_PushFailure ==
    /\ [][\A w \in ProcessWorkers, id \in TaskIds :
            (/\ pw[w].pc = "push" /\ pw[w].task = id
             /\ pw'[w] # pw[w] /\ ~InUploadQueue(id)')
              => /\ pw'[w] = IdlePw
                 /\ posts'[id] = {"failed"}
                 /\ bodies'[id] # {}
                 /\ \A b \in bodies'[id] :
                      /\ b.status = "failed"
                      /\ "error_message" \in b.fields
                      /\ "s3_url" \notin b.fields
                 /\ OutputPath(id) \in files /\ OutputPath(id) \notin files'
                 /\ uploadQueue' = uploadQueue]_vars
    /\ [][\A id \in TaskIds : posts[id] \subseteq posts'[id]]_vars
    /\ [][\A id \in TaskIds :
            ~InUploadQueue(id) /\ InUploadQueue(id)' =>
              /\ posts[id] = {}
              /\ \E w \in ProcessWorkers :
                   pw[w].pc = "push" /\ pw[w].task = id]_vars
    /\ [](\A id \in TaskIds : Cardinality(posts[id]) <= 1)

\* the push of one task's Result raised: its failure callback was delivered
\* and its file is gone, while the other task's Result was pushed and the
\* file of that one is on the disk
C39_Witness ==
    \E id, other \in TaskIds :
      /\ returned[id] = 1 /\ FailureDelivered(id) /\ ~InFlight(id)
      /\ OutputPath(id) \notin files
      /\ InUploadQueue(other) /\ OutputPath(other) \in files
      /\ posts[other] = {}
====
